---- MODULE Spec2Model ----
(***************************************************************************)
(* A model of the synchronization core of RustPad: the single-hunk diff     *)
(* engine (editor/diff_engine.rs), the editor state it is applied to        *)
(* (editor/state.rs), the document store (document.rs), the undo/redo      *)
(* manager (editor/version_control.rs), the client registry and its         *)
(* broadcast (client.rs), the connection handlers (main.rs, websocket.rs),  *)
(* the peer maps (networking/), the collaboration manager                   *)
(* (editor/collaboration.rs), the protocol codec (networking/protocol.rs)  *)
(* and the version history (storage/history.rs).                            *)
(*                                                                          *)
(* A text is a Rust String: a sequence of bytes that is well-formed UTF-8.  *)
(* All offsets are byte offsets, 0-based as in the source; TLA+ sequences   *)
(* are 1-based, so byte i of the source is s[i + 1] here.                   *)
(***************************************************************************)
EXTENDS Integers, Sequences, FiniteSets, TLC

VARIABLES
    pc,            \* position of the diff scenario: "start", "diffed", "applied", "panicked"
    old_text,      \* DiffEngine::diff argument
    new_text,      \* DiffEngine::diff argument
    operations,    \* what DiffEngine::diff produced: [panic, ops]
    state,         \* an EditorState (editor/state.rs)
    state_panic,   \* TRUE once an EditorState call has panicked
    content,       \* Document.content
    history,       \* Document.history
    doc_ret,       \* what the last Document call returned (Option as a sequence of length <= 1)
    applied_log,   \* every update passed to apply_update / redo_update, in call order
    only_applies,  \* TRUE while no undo_last_update call has been made on the Document
    undo_stack,    \* VersionControl.undo_stack (front = oldest, back = top)
    redo_stack,    \* VersionControl.redo_stack
    max_history,   \* VersionControl.max_history
    vc_ret,        \* what the last VersionControl call returned (Option as a sequence)
    track_run,     \* the snapshots of the track_change calls made since the last other call
    redo_before,   \* the length of redo_stack before the last VersionControl call
    cap_fixed,     \* TRUE while max_history has not changed since the stacks were last empty
    state_ret,     \* what the last EditorState call returned: "()", or "panic" when it did not return
    ed_ops,        \* Editor: the number of calls made on it
    scenario,      \* Editor: how far the run follows the script of C14 (-1: it left it)
    text_before,   \* Editor: state.text before the last call made on it
    clients,       \* the client registry: HashMap<String, Client>, key -> Option<Client>
    count_before,  \* get_client_count before the last registry call
    chan,          \* the mpsc channels: channel -> [open, queue]
    bc,            \* the registry broadcast in progress (the holder of the registry lock)
    server,        \* which connection handler serves: "handle_socket" (main.rs) or "handle_websocket"
    registry,      \* main.rs Clients: HashMap<String, UnboundedSender>, id -> Option<channel>
    conns,         \* the connections: handler and task positions, subscription queue, socket output
    events,        \* the number of inbound socket events the handlers have taken
    peers,         \* the peer map of ConnectionManager / PeerSyncManager: id -> Option<channel>
    collab,        \* a CollaborationManager: document, edits, its two locks, and the apply_edit calls
    wire,          \* a ProtocolMessage on its way through to_json and from_json
    hm,            \* a HistoryManager (storage/history.rs) and the log of its add_version calls
    round,         \* VersionControl: an undo / redo round trip and where it started
    pconn,         \* ConnectionManager::add_peer: the tasks of each peer's connection
    last_op,       \* the name of the last operation called
    last_args      \* the arguments of the last operation called

vars == <<pc, old_text, new_text, operations, state, state_panic,
          content, history, doc_ret, applied_log, only_applies,
          undo_stack, redo_stack, max_history, vc_ret, track_run, redo_before, cap_fixed,
          state_ret, ed_ops, scenario, text_before, clients, count_before, chan, bc,
          server, registry, conns, events, peers, collab, wire, hm, round, pconn,
          last_op, last_args>>

diff_vars == <<pc, old_text, new_text, operations, state, state_panic>>
doc_vars  == <<content, history, doc_ret, applied_log, only_applies>>
vc_vars   == <<undo_stack, redo_stack, max_history, vc_ret, track_run, redo_before, cap_fixed>>
srv_vars  == <<server, registry, conns, events, peers>>
app_vars  == <<collab, wire>>
side_vars == <<hm, round, pconn>>
net_vars  == <<chan, bc, srv_vars, app_vars, side_vars>>
ext_vars  == <<state_ret, ed_ops, scenario, text_before, clients, count_before, net_vars>>

(***************************************************************************)
(* Bounds and input domains.                                                *)
(***************************************************************************)
MaxChars == 3        \* a text holds at most this many characters

\* The characters texts are built from, as their UTF-8 encodings:
\* "a", "b", U+00E9 (C3 A9) and U+00E8 (C3 A8).
Chars == {<<97>>, <<98>>, <<195, 169>>, <<195, 168>>}

RECURSIVE TextsUpTo(_)
TextsUpTo(n) ==
    IF n = 0 THEN {<<>>}
    ELSE LET S == TextsUpTo(n - 1) IN S \cup {t \o c : t \in S, c \in Chars}

Texts == TextsUpTo(MaxChars)

Min(a, b) == IF a <= b THEN a ELSE b

\* Option<T> is a sequence of length at most one.
None == <<>>
Some(x) == <<x>>

(***************************************************************************)
(* Rust string primitives used by the code (byte-indexed, panicking).       *)
(***************************************************************************)
\* str::is_char_boundary: offset 0, offset len, or a byte that is not a
\* UTF-8 continuation byte (10xxxxxx).
is_char_boundary(s, i) ==
    \/ i = 0
    \/ i = Len(s)
    \/ /\ 0 < i /\ i < Len(s)
       /\ (s[i + 1] < 128 \/ s[i + 1] >= 192)

\* A byte range start..end that indexing (&s[start..end]) and
\* String::replace_range accept; any other range panics.
range_ok(s, start, end) ==
    /\ 0 <= start /\ start <= end /\ end <= Len(s)
    /\ is_char_boundary(s, start)
    /\ is_char_boundary(s, end)

\* &s[start..end]
str_slice(s, start, end) ==
    IF range_ok(s, start, end)
    THEN [panic |-> FALSE, val |-> SubSeq(s, start + 1, end)]
    ELSE [panic |-> TRUE, val |-> <<>>]

(***************************************************************************)
(* editor/diff_engine.rs                                                    *)
(***************************************************************************)
\* enum DiffOperation
Insert(pos, text) == [op |-> "Insert", pos |-> pos, text |-> text]
Delete(start, end) == [op |-> "Delete", start |-> start, end |-> end]
Replace(start, end, text) == [op |-> "Replace", start |-> start, end |-> end, text |-> text]

find_common_prefix(old, new) ==
    LET min_len == Min(Len(old), Len(new))
        RECURSIVE loop(_)
        loop(i) ==
            IF i >= min_len THEN min_len
            ELSE IF old[i + 1] /= new[i + 1] THEN i
            ELSE loop(i + 1)
    IN loop(0)

find_common_suffix(old, new, common_prefix) ==
    LET old_len == Len(old)
        new_len == Len(new)
        min_len == Min(old_len, new_len) - common_prefix
        RECURSIVE loop(_)
        loop(i) ==
            IF i >= min_len THEN min_len
            ELSE IF old[(old_len - 1 - i) + 1] /= new[(new_len - 1 - i) + 1] THEN i
            ELSE loop(i + 1)
    IN loop(0)

\* A variant of diff that takes two middles of the same length for equal.
diff_same_length(old, new) ==
    LET common_prefix == find_common_prefix(old, new)
        common_suffix == find_common_suffix(old, new, common_prefix)
        old_slice == str_slice(old, common_prefix, Len(old) - common_suffix)
        new_slice == str_slice(new, common_prefix, Len(new) - common_suffix)
        old_middle == old_slice.val
        new_middle == new_slice.val
    IN  IF old_slice.panic \/ new_slice.panic
        THEN [panic |-> TRUE, ops |-> <<>>]
        ELSE [panic |-> FALSE,
              ops |->
                IF old_middle = <<>> /\ new_middle /= <<>>
                THEN <<Insert(common_prefix, new_middle)>>
                ELSE IF old_middle /= <<>> /\ new_middle = <<>>
                THEN <<Delete(common_prefix, common_prefix + Len(old_middle))>>
                ELSE IF old_middle /= <<>> /\ new_middle /= <<>>
                        /\ Len(old_middle) /= Len(new_middle)
                THEN <<Replace(common_prefix, common_prefix + Len(old_middle), new_middle)>>
                ELSE <<>>]

diff(old, new) ==
    LET common_prefix == find_common_prefix(old, new)
        common_suffix == find_common_suffix(old, new, common_prefix)
        old_slice == str_slice(old, common_prefix, Len(old) - common_suffix)
        new_slice == str_slice(new, common_prefix, Len(new) - common_suffix)
        old_middle == old_slice.val
        new_middle == new_slice.val
    IN  IF old_slice.panic \/ new_slice.panic
        THEN [panic |-> TRUE, ops |-> <<>>]
        ELSE [panic |-> FALSE,
              ops |->
                IF old_middle = <<>> /\ new_middle /= <<>>
                THEN <<Insert(common_prefix, new_middle)>>
                ELSE IF old_middle /= <<>> /\ new_middle = <<>>
                THEN <<Delete(common_prefix, common_prefix + Len(old_middle))>>
                ELSE IF old_middle /= <<>> /\ new_middle /= <<>> /\ old_middle /= new_middle
                THEN <<Replace(common_prefix, common_prefix + Len(old_middle), new_middle)>>
                ELSE <<>>]

(***************************************************************************)
(* editor/state.rs                                                          *)
(***************************************************************************)
EditorState_new ==
    [text |-> <<>>, cursor_position |-> 0,
     selection_start |-> None, selection_end |-> None]

clear_selection(s) ==
    [s EXCEPT !.selection_start = None, !.selection_end = None]

replace_text(s, text) ==
    clear_selection([s EXCEPT !.text = text, !.cursor_position = Len(text)])

\* String::insert_str(cursor_position, text) panics when the cursor is past the
\* end or inside a character.
insert_text(s, text) ==
    IF s.cursor_position <= Len(s.text) /\ is_char_boundary(s.text, s.cursor_position)
    THEN [panic |-> FALSE,
          state |-> [s EXCEPT
                       !.text = SubSeq(s.text, 1, s.cursor_position) \o text
                                \o SubSeq(s.text, s.cursor_position + 1, Len(s.text)),
                       !.cursor_position = s.cursor_position + Len(text)]]
    ELSE [panic |-> TRUE, state |-> s]

\* A variant of delete_text that leaves the cursor where it was.
delete_text_keeps_cursor(s, start, end) ==
    IF start < end /\ end <= Len(s.text)
    THEN IF range_ok(s.text, start, end)
         THEN [panic |-> FALSE,
               state |-> [s EXCEPT
                            !.text = SubSeq(s.text, 1, start)
                                     \o SubSeq(s.text, end + 1, Len(s.text))]]
         ELSE [panic |-> TRUE, state |-> s]
    ELSE [panic |-> FALSE, state |-> s]

\* Outside the guard nothing happens and nothing is reported; inside it,
\* String::replace_range(start..end, "") panics off a char boundary.
delete_text(s, start, end) ==
    IF start < end /\ end <= Len(s.text)
    THEN IF range_ok(s.text, start, end)
         THEN [panic |-> FALSE,
               state |-> [s EXCEPT
                            !.text = SubSeq(s.text, 1, start)
                                     \o SubSeq(s.text, end + 1, Len(s.text)),
                            !.cursor_position = start]]
         ELSE [panic |-> TRUE, state |-> s]
    ELSE [panic |-> FALSE, state |-> s]

move_cursor(s, position) ==
    [s EXCEPT !.cursor_position = Min(position, Len(s.text))]

set_selection(s, start, end) ==
    [s EXCEPT !.selection_start = Some(Min(start, Len(s.text))),
              !.selection_end = Some(Min(end, Len(s.text)))]

get_selection_range(s) ==
    IF s.selection_start /= None /\ s.selection_end /= None
    THEN Some(<<s.selection_start[1], s.selection_end[1]>>)
    ELSE None

\* String::replace_range(start..end, new_text), then the cursor assignment.
\* A panic leaves no state behind: [panic |-> TRUE] with the state as it was.
apply_sync(s, start, end, text) ==
    IF range_ok(s.text, start, end)
    THEN [panic |-> FALSE,
          state |-> [s EXCEPT
                       !.text = SubSeq(s.text, 1, start) \o text
                                \o SubSeq(s.text, end + 1, Len(s.text)),
                       !.cursor_position = start + Len(text)]]
    ELSE [panic |-> TRUE, state |-> s]

\* One DiffOperation applied through apply_sync: Insert(p, t) replaces [p, p),
\* Delete(s, e) replaces [s, e) by the empty text, Replace(s, e, t) replaces [s, e).
apply_operation(s, o) ==
    IF o.op = "Insert" THEN apply_sync(s, o.pos, o.pos, o.text)
    ELSE IF o.op = "Delete" THEN apply_sync(s, o.start, o.end, <<>>)
    ELSE apply_sync(s, o.start, o.end, o.text)

RECURSIVE apply_operations(_, _)
apply_operations(s, ops) ==
    IF ops = <<>> THEN [panic |-> FALSE, state |-> s]
    ELSE LET r == apply_operation(s, Head(ops))
         IN IF r.panic THEN r ELSE apply_operations(r.state, Tail(ops))

(***************************************************************************)
(* document.rs                                                              *)
(***************************************************************************)
Document_new == [content |-> <<>>, history |-> <<>>]

\* A variant of apply_update that records the update and keeps the content.
apply_update_keeps_content(doc, update) ==
    [content |-> doc.content, history |-> Append(doc.history, update)]

\* A variant of apply_update that puts the update at the oldest end.
apply_update_at_front(doc, update) ==
    [content |-> update.content, history |-> <<update>> \o doc.history]

\* history.push(update.clone()); content = update.content
apply_update(doc, update) ==
    [content |-> update.content, history |-> Append(doc.history, update)]

\* A variant of undo_last_update that drops the oldest entry.
undo_last_update_oldest(doc) ==
    IF Len(doc.history) > 1
    THEN LET popped == Tail(doc.history)
             last == popped[Len(popped)]
         IN [doc |-> [content |-> last.content, history |-> popped],
             ret |-> Some(last)]
    ELSE [doc |-> doc, ret |-> None]

\* A variant of undo_last_update that also pops the only entry.
undo_last_update_no_ground(doc) ==
    IF Len(doc.history) > 0
    THEN LET popped == SubSeq(doc.history, 1, Len(doc.history) - 1)
         IN IF popped = <<>>
            THEN [doc |-> [content |-> <<>>, history |-> popped], ret |-> None]
            ELSE [doc |-> [content |-> popped[Len(popped)].content, history |-> popped],
                  ret |-> Some(popped[Len(popped)])]
    ELSE [doc |-> doc, ret |-> None]

\* A variant of undo_last_update that keeps the content of the removed entry.
undo_last_update_stale_content(doc) ==
    IF Len(doc.history) > 1
    THEN LET popped == SubSeq(doc.history, 1, Len(doc.history) - 1)
             last == popped[Len(popped)]
         IN [doc |-> [content |-> doc.content, history |-> popped],
             ret |-> Some(last)]
    ELSE [doc |-> doc, ret |-> None]

\* [doc, ret]: the Document after the call and the Option it returns.
undo_last_update(doc) ==
    IF Len(doc.history) > 1
    THEN LET popped == SubSeq(doc.history, 1, Len(doc.history) - 1)
             last == popped[Len(popped)]
         IN [doc |-> [content |-> last.content, history |-> popped],
             ret |-> Some(last)]
    ELSE [doc |-> doc, ret |-> None]

redo_update(doc, update) == apply_update(doc, update)

(***************************************************************************)
(* editor/version_control.rs                                                *)
(***************************************************************************)
DefaultMaxHistory == 100

VersionControl_new ==
    [undo_stack |-> <<>>, redo_stack |-> <<>>, max_history |-> DefaultMaxHistory]

\* VecDeque::pop_front / pop_back: [q, popped], popped = None on an empty queue.
pop_front(q) ==
    IF q = <<>> THEN [q |-> q, popped |-> None]
    ELSE [q |-> Tail(q), popped |-> Some(Head(q))]

pop_back(q) ==
    IF q = <<>> THEN [q |-> q, popped |-> None]
    ELSE [q |-> SubSeq(q, 1, Len(q) - 1), popped |-> Some(q[Len(q)])]

\* A variant of track_change that leaves the redo stack as it is.
track_change_keeps_redo(vc, s) ==
    LET kept == IF Len(vc.undo_stack) = vc.max_history
                THEN pop_front(vc.undo_stack).q
                ELSE vc.undo_stack
    IN [vc EXCEPT !.undo_stack = Append(kept, s)]

\* A variant of track_change that evicts the newest entry at the cap.
track_change_evicts_newest(vc, s) ==
    LET kept == IF Len(vc.undo_stack) = vc.max_history
                THEN pop_back(vc.undo_stack).q
                ELSE vc.undo_stack
    IN [vc EXCEPT !.undo_stack = Append(kept, s), !.redo_stack = <<>>]

track_change(vc, s) ==
    LET kept == IF Len(vc.undo_stack) = vc.max_history
                THEN pop_front(vc.undo_stack).q
                ELSE vc.undo_stack
    IN [vc EXCEPT !.undo_stack = Append(kept, s), !.redo_stack = <<>>]

\* A variant of undo that pushes the current state before it looks at the undo stack.
undo_pushes_first(vc, current_state) ==
    LET p == pop_back(vc.undo_stack)
        pushed == Append(vc.redo_stack, current_state)
    IN IF p.popped /= None
       THEN [vc |-> [vc EXCEPT !.undo_stack = p.q, !.redo_stack = pushed],
             ret |-> p.popped]
       ELSE [vc |-> [vc EXCEPT !.redo_stack = pushed], ret |-> None]

\* A variant of undo that takes the oldest entry of the undo stack.
undo_takes_oldest(vc, current_state) ==
    LET p == pop_front(vc.undo_stack)
    IN IF p.popped /= None
       THEN [vc |-> [vc EXCEPT !.undo_stack = p.q,
                               !.redo_stack = Append(vc.redo_stack, current_state)],
             ret |-> p.popped]
       ELSE [vc |-> vc, ret |-> None]

\* [vc, ret]
undo(vc, current_state) ==
    LET p == pop_back(vc.undo_stack)
    IN IF p.popped /= None
       THEN [vc |-> [vc EXCEPT !.undo_stack = p.q,
                               !.redo_stack = Append(vc.redo_stack, current_state)],
             ret |-> p.popped]
       ELSE [vc |-> vc, ret |-> None]

\* A variant of redo that does not put the current state on the undo stack.
redo_drops_current(vc, current_state) ==
    LET p == pop_back(vc.redo_stack)
    IN IF p.popped /= None
       THEN [vc |-> [vc EXCEPT !.redo_stack = p.q], ret |-> p.popped]
       ELSE [vc |-> vc, ret |-> None]

redo(vc, current_state) ==
    LET p == pop_back(vc.redo_stack)
    IN IF p.popped /= None
       THEN [vc |-> [vc EXCEPT !.redo_stack = p.q,
                               !.undo_stack = Append(vc.undo_stack, current_state)],
             ret |-> p.popped]
       ELSE [vc |-> vc, ret |-> None]

set_max_history(vc, n) == [vc EXCEPT !.max_history = n]

clear_history(vc) == [vc EXCEPT !.undo_stack = <<>>, !.redo_stack = <<>>]

(***************************************************************************)
(* Initial values of the three scenarios.                                   *)
(***************************************************************************)
DiffIdle ==
    /\ pc = "idle"
    /\ old_text = <<>>
    /\ new_text = <<>>
    /\ operations = [panic |-> FALSE, ops |-> <<>>]
    /\ state = EditorState_new
    /\ state_panic = FALSE

DocInit ==
    /\ content = Document_new.content
    /\ history = Document_new.history
    /\ doc_ret = None
    /\ applied_log = <<>>
    /\ only_applies = TRUE

VcInit ==
    /\ undo_stack = VersionControl_new.undo_stack
    /\ redo_stack = VersionControl_new.redo_stack
    /\ max_history = VersionControl_new.max_history
    /\ vc_ret = None
    /\ track_run = <<>>
    /\ redo_before = 0
    /\ cap_fixed = TRUE

(***************************************************************************)
(* client.rs: the registry is a HashMap<String, Client> behind a Mutex; it  *)
(* is modelled as a function from every key to an Option<Client>.           *)
(***************************************************************************)
ClientIds == {"c1", "c2", "c3"}
Usernames == {"u1", "u2"}
Channels == {"tx1", "tx2", "tx3"}
Messages == {"m1", "m2"}
Senders == {None} \cup {Some(ch) : ch \in Channels}
Client == [id : ClientIds, username : Usernames, sender : Senders]

\* The channel created for the connection that is given the id.
ChannelOf(id) == CASE id = "c1" -> "tx1" [] id = "c2" -> "tx2" [] id = "c3" -> "tx3"

\* The clients that hold the sender of their own channel, or none.
OwnClients == {c \in Client : c.sender \in {None, Some(ChannelOf(c.id))}}

Clients_new == [id \in ClientIds |-> None]

\* A variant of add_client that keeps the entry a key already has.
add_client_keeps_existing(cl, id, client) ==
    IF cl[id] /= None THEN cl ELSE [cl EXCEPT ![id] = Some(client)]

\* HashMap::insert
add_client(cl, id, client) == [cl EXCEPT ![id] = Some(client)]

\* A variant of remove_client that leaves the entry in place.
remove_client_keeps_entry(cl, id) == cl

\* HashMap::remove
remove_client(cl, id) == [cl EXCEPT ![id] = None]

get_client_count(cl) == Cardinality({id \in ClientIds : cl[id] /= None})

get_client_by_id(cl, id) == cl[id]

\* list_clients: (client.id, client.username) of every entry, in the order
\* the map yields its entries; the key of the entry is not used.
list_clients(cl, order) ==
    LET visit[i \in 0..Len(order)] ==
            IF i = 0 THEN <<>>
            ELSE IF cl[order[i]] /= None
                 THEN Append(visit[i - 1], <<cl[order[i]][1].id, cl[order[i]][1].username>>)
                 ELSE visit[i - 1]
    IN visit[Len(order)]

\* mpsc::unbounded_channel(): open, nothing queued.
Channel_new == [open |-> TRUE, queue |-> <<>>]

\* UnboundedSender::send: the message is queued unless the receiver is gone.
send(chans, ch, message) ==
    IF chans[ch].open
    THEN [chan |-> [chans EXCEPT ![ch].queue = Append(@, message)], ok |-> TRUE]
    ELSE [chan |-> chans, ok |-> FALSE]

\* A variant of the loop body that drops the entry whose send failed.
broadcast_visit_removing_failed(cl, chans, id, message) ==
    LET client == cl[id][1]
        r == IF client.sender /= None
             THEN send(chans, client.sender[1], message)
             ELSE [chan |-> chans, ok |-> TRUE]
    IN [clients |-> IF r.ok THEN cl ELSE [cl EXCEPT ![id] = None],
        chan |-> r.chan, ok |-> r.ok]

\* The body of the loop of broadcast_message / broadcast_update for one entry.
broadcast_visit(cl, chans, id, message) ==
    LET client == cl[id][1]
        r == IF client.sender /= None
             THEN send(chans, client.sender[1], message)
             ELSE [chan |-> chans, ok |-> TRUE]
    IN [clients |-> cl, chan |-> r.chan, ok |-> r.ok]

\* A variant of the loop that stops at the first failed send.
broadcast_rest_stops_on_error(todo, id, ok) == IF ok THEN todo \ {id} ELSE {}

\* The entries the loop still has to visit after the entry id.
broadcast_rest(todo, id, ok) == todo \ {id}

Broadcast_idle == [active |-> FALSE, todo |-> {}, msg |-> "", order |-> <<>>, calls |-> 0]

\* The connections that may be accepted, named by the id generated for them.
Conns == {"c1", "c2"}

Conn_new == [handler |-> "idle", recv |-> "idle", send |-> "idle", fwd |-> "idle",
             rx |-> <<>>, out |-> {}]

SrvIdle ==
    /\ registry = [k \in Conns |-> None]
    /\ conns = [k \in Conns |-> Conn_new]
    /\ events = 0
    /\ peers = [id \in ClientIds |-> None]

\* CollaborationManager::new, with no apply_edit call under way.
CollaborationManager_new ==
    [document |-> "", edits |-> <<>>, document_lock |-> None, edits_lock |-> None,
     pc |-> [h \in Conns |-> "idle"], edit |-> [h \in Conns |-> None],
     effect_log |-> <<>>, broadcaster |-> <<>>]

Wire_idle == [stage |-> "idle", msg |-> None, json |-> None, ret |-> None]

(***************************************************************************)
(* storage/history.rs: HistoryManager, the bounded queue of file versions.  *)
(* A FileVersion is [version_id, content, timestamp]; its description is    *)
(* carried along unread and is left out.  base_dir and the version files   *)
(* on disk are write-only for the queue: of save_version only its result    *)
(* is kept.                                                                 *)
(***************************************************************************)
FileVersion(version_id, new_content, timestamp) ==
    [version_id |-> version_id, content |-> new_content, timestamp |-> timestamp]

HistoryManager_new(max_versions) ==
    [max_versions |-> max_versions, versions |-> <<>>]

\* add_version evicting the newest entry instead of the oldest.
add_version_evicts_newest(self, new_content, now, saved) ==
    LET version == FileVersion(Len(self.versions) + 1, new_content, now)
        pushed  == Append(self.versions, version)
        popped  == IF Len(pushed) > self.max_versions THEN pop_back(pushed)
                   ELSE [q |-> pushed, popped |-> None]
    IN  IF ~saved THEN [self |-> self, version |-> None, evicted |-> None]
        ELSE [self |-> [self EXCEPT !.versions = popped.q],
              version |-> Some(version), evicted |-> popped.popped]

\* add_version(file_name, content, description): now is what Utc::now()
\* read, saved tells whether save_version returned Ok.  The result is
\* [self, version, evicted]: the manager afterwards, the version the call
\* made (None when it returned Err), and the version that pop_front removed.
add_version(self, new_content, now, saved) ==
    LET version_id == Len(self.versions) + 1
        version    == FileVersion(version_id, new_content, now)
        pushed     == Append(self.versions, version)
        popped     == IF Len(pushed) > self.max_versions THEN pop_front(pushed)
                      ELSE [q |-> pushed, popped |-> None]
    IN  IF ~saved THEN [self |-> self, version |-> None, evicted |-> None]
        ELSE [self |-> [self EXCEPT !.versions = popped.q],
              version |-> Some(version), evicted |-> popped.popped]

\* get_version: the first retained version, front to back, with that id.
get_version(self, version_id) ==
    LET found == {i \in 1..Len(self.versions) : self.versions[i].version_id = version_id}
    IN  IF found = {} THEN None
        ELSE Some(self.versions[CHOOSE i \in found : \A j \in found : i <= j])

\* list_versions: the queue, front to back.
list_versions(self) == self.versions

\* No manager in use: one with room for nothing, no call made.  added lists
\* the versions of the successful add_version calls in call order, evicted
\* those that pop_front removed, ids_before the ids retained when the last
\* call began, clock the number of calls (the reading of Utc::now()).
History_idle ==
    [self |-> HistoryManager_new(0), added |-> <<>>, evicted |-> <<>>,
     ids_before |-> {}, clock |-> 0]

StoreIdle == hm = History_idle

\* No undo / redo round trip under way: todo lists the calls still to make,
\* done counts those that returned Some, vc0 and c are the VersionControl
\* and the current state the trip started from, arg the state to pass next.
Round_idle == [todo |-> <<>>, done |-> 0, vc0 |-> VersionControl_new, c |-> None, arg |-> None]

RoundIdle == round = Round_idle

\* The connection of a peer address as add_peer runs it: task is the spawned
\* connection task ("none" before add_peer, "handshake", "select",
\* "returned", "panicked"), send and recv its send_task and recv_task
\* ("none" before they are spawned, "run", "ended").
PeerConn_none == [task |-> "none", send |-> "none", recv |-> "none"]

PConnIdle == pconn = [id \in Conns |-> PeerConn_none]

SideIdle == StoreIdle /\ RoundIdle /\ PConnIdle

AppInit ==
    /\ collab = CollaborationManager_new
    /\ wire = Wire_idle

NetInit ==
    /\ AppInit
    /\ chan = [ch \in Channels |-> Channel_new]
    /\ bc = Broadcast_idle
    /\ server = "none"
    /\ SrvIdle
    /\ SideIdle

\* No Editor script under way, and an empty registry.
ExtInit ==
    /\ ed_ops = 0
    /\ text_before = <<>>
    /\ state_ret = "()"
    /\ scenario = 0
    /\ clients = Clients_new
    /\ count_before = 0
    /\ NetInit

(***************************************************************************)
(* Scenario 1: diff(old_text, new_text), then its operations applied to an  *)
(* EditorState that holds old_text.                                         *)
(***************************************************************************)
InitDiff ==
    /\ pc = "start"
    /\ old_text \in Texts
    /\ new_text \in Texts
    /\ operations = [panic |-> FALSE, ops |-> <<>>]
    /\ state = replace_text(EditorState_new, old_text)
    /\ state_panic = FALSE
    /\ DocInit
    /\ VcInit
    /\ ExtInit
    /\ last_op = "new"
    /\ last_args = <<>>

DiffCall ==
    /\ pc = "start"
    /\ operations' = diff(old_text, new_text)
    /\ pc' = IF operations'.panic THEN "panicked" ELSE "diffed"
    /\ last_op' = "diff"
    /\ last_args' = <<old_text, new_text>>
    /\ UNCHANGED <<old_text, new_text, state, state_panic, doc_vars, vc_vars, ext_vars>>

ApplyOps ==
    /\ pc = "diffed"
    /\ LET r == apply_operations(state, operations.ops)
       IN /\ state' = r.state
          /\ state_panic' = r.panic
    /\ pc' = "applied"
    /\ last_op' = "apply_sync"
    /\ last_args' = <<>>
    /\ UNCHANGED <<old_text, new_text, operations, doc_vars, vc_vars, ext_vars>>

NextDiff == DiffCall \/ ApplyOps

SpecDiff == InitDiff /\ [][NextDiff]_vars

(***************************************************************************)
(* Scenario 2: one Document under any sequence of its operations.           *)
(***************************************************************************)
MaxUpdates == 3      \* at most this many apply_update / redo_update calls

UpdateContents == {<<>>, <<97>>, <<98>>}
Users == {"A", "B"}
Timestamps == {"1"}
Updates == [content : UpdateContents, user : Users, timestamp : Timestamps]

Doc == [content |-> content, history |-> history]

InitDoc ==
    /\ DiffIdle
    /\ DocInit
    /\ VcInit
    /\ ExtInit
    /\ last_op = "new"
    /\ last_args = <<>>

ApplyUpdate(u) ==
    /\ Len(applied_log) < MaxUpdates
    /\ LET d == apply_update(Doc, u)
       IN /\ content' = d.content
          /\ history' = d.history
    /\ doc_ret' = None
    /\ applied_log' = Append(applied_log, u)
    /\ last_op' = "apply_update"
    /\ last_args' = <<u>>
    /\ UNCHANGED <<only_applies, diff_vars, vc_vars, ext_vars>>

UndoLastUpdate ==
    /\ LET r == undo_last_update(Doc)
       IN /\ content' = r.doc.content
          /\ history' = r.doc.history
          /\ doc_ret' = r.ret
    /\ only_applies' = FALSE
    /\ last_op' = "undo_last_update"
    /\ last_args' = <<>>
    /\ UNCHANGED <<applied_log, diff_vars, vc_vars, ext_vars>>

RedoUpdate(u) ==
    /\ Len(applied_log) < MaxUpdates
    /\ LET d == redo_update(Doc, u)
       IN /\ content' = d.content
          /\ history' = d.history
    /\ doc_ret' = None
    /\ applied_log' = Append(applied_log, u)
    /\ last_op' = "redo_update"
    /\ last_args' = <<u>>
    /\ UNCHANGED <<only_applies, diff_vars, vc_vars, ext_vars>>

NextDoc ==
    \/ \E u \in Updates : ApplyUpdate(u)
    \/ UndoLastUpdate
    \/ \E u \in Updates : RedoUpdate(u)

SpecDoc == InitDoc /\ [][NextDoc]_vars

(***************************************************************************)
(* Scenario 3: one VersionControl under any sequence of its operations.     *)
(***************************************************************************)
MaxStack == 3        \* track_change is called only while undo_stack is shorter
MaxRun == 4          \* at most this many track_change calls in a row
MaxCap == 2          \* set_max_history(n) is called with n in 0..MaxCap

Snapshot(text) == replace_text(EditorState_new, text)
Snapshots == {Snapshot(<<97>>), Snapshot(<<97, 98>>), Snapshot(<<97, 98, 99>>)}

Vc == [undo_stack |-> undo_stack, redo_stack |-> redo_stack, max_history |-> max_history]

InitVc ==
    /\ DiffIdle
    /\ DocInit
    /\ VcInit
    /\ ExtInit
    /\ last_op = "new"
    /\ last_args = <<>>

TrackChange(s) ==
    /\ Len(undo_stack) < MaxStack
    /\ Len(track_run) < MaxRun
    /\ LET v == track_change(Vc, s)
       IN /\ undo_stack' = v.undo_stack
          /\ redo_stack' = v.redo_stack
          /\ max_history' = v.max_history
    /\ vc_ret' = None
    /\ track_run' = Append(track_run, s)
    /\ redo_before' = Len(redo_stack)
    /\ last_op' = "track_change"
    /\ last_args' = <<s>>
    /\ UNCHANGED <<cap_fixed, diff_vars, doc_vars, ext_vars>>

Undo(current) ==
    /\ LET r == undo(Vc, current)
       IN /\ undo_stack' = r.vc.undo_stack
          /\ redo_stack' = r.vc.redo_stack
          /\ max_history' = r.vc.max_history
          /\ vc_ret' = r.ret
    /\ track_run' = <<>>
    /\ redo_before' = Len(redo_stack)
    /\ last_op' = "undo"
    /\ last_args' = <<current>>
    /\ UNCHANGED <<cap_fixed, diff_vars, doc_vars, ext_vars>>

Redo(current) ==
    /\ LET r == redo(Vc, current)
       IN /\ undo_stack' = r.vc.undo_stack
          /\ redo_stack' = r.vc.redo_stack
          /\ max_history' = r.vc.max_history
          /\ vc_ret' = r.ret
    /\ track_run' = <<>>
    /\ redo_before' = Len(redo_stack)
    /\ last_op' = "redo"
    /\ last_args' = <<current>>
    /\ UNCHANGED <<cap_fixed, diff_vars, doc_vars, ext_vars>>

SetMaxHistory(n) ==
    /\ LET v == set_max_history(Vc, n)
       IN /\ undo_stack' = v.undo_stack
          /\ redo_stack' = v.redo_stack
          /\ max_history' = v.max_history
    /\ vc_ret' = None
    /\ track_run' = <<>>
    /\ cap_fixed' = ((undo_stack = <<>> /\ redo_stack = <<>>) \/ (cap_fixed /\ n = max_history))
    /\ redo_before' = Len(redo_stack)
    /\ last_op' = "set_max_history"
    /\ last_args' = <<n>>
    /\ UNCHANGED <<diff_vars, doc_vars, ext_vars>>

ClearHistory ==
    /\ LET v == clear_history(Vc)
       IN /\ undo_stack' = v.undo_stack
          /\ redo_stack' = v.redo_stack
          /\ max_history' = v.max_history
    /\ vc_ret' = None
    /\ track_run' = <<>>
    /\ cap_fixed' = TRUE
    /\ redo_before' = Len(redo_stack)
    /\ last_op' = "clear_history"
    /\ last_args' = <<>>
    /\ UNCHANGED <<diff_vars, doc_vars, ext_vars>>

NextVc ==
    \/ \E s \in Snapshots : TrackChange(s)
    \/ \E c \in Snapshots : Undo(c)
    \/ \E c \in Snapshots : Redo(c)
    \/ \E n \in 0..MaxCap : SetMaxHistory(n)
    \/ ClearHistory

SpecVc == InitVc /\ [][NextVc]_vars

(***************************************************************************)
(* Properties of the diff engine (checked under SpecDiff).                  *)
(***************************************************************************)
DiffReturned == pc \in {"diffed", "applied"}
DiffEnded == pc \in {"diffed", "applied", "panicked"}
RunEnded == pc \in {"applied", "panicked"}

\* The longest common prefix of two texts, by its definition.
LongestCommonPrefix(a, b) ==
    CHOOSE k \in 0..Min(Len(a), Len(b)) :
        /\ SubSeq(a, 1, k) = SubSeq(b, 1, k)
        /\ \A j \in (k + 1)..Min(Len(a), Len(b)) : SubSeq(a, 1, j) /= SubSeq(b, 1, j)

\* The longest common suffix of two texts, by its definition.
LongestCommonSuffix(a, b) ==
    CHOOSE k \in 0..Min(Len(a), Len(b)) :
        /\ SubSeq(a, Len(a) - k + 1, Len(a)) = SubSeq(b, Len(b) - k + 1, Len(b))
        /\ \A j \in (k + 1)..Min(Len(a), Len(b)) :
              SubSeq(a, Len(a) - j + 1, Len(a)) /= SubSeq(b, Len(b) - j + 1, Len(b))

\* The single operation C3 describes for old /= new.
ExpectedOperation(old, new) ==
    LET prefix_len == LongestCommonPrefix(old, new)
        old_rest == SubSeq(old, prefix_len + 1, Len(old))
        new_rest == SubSeq(new, prefix_len + 1, Len(new))
        suffix_len == LongestCommonSuffix(old_rest, new_rest)
        old_middle == SubSeq(old_rest, 1, Len(old_rest) - suffix_len)
        new_middle == SubSeq(new_rest, 1, Len(new_rest) - suffix_len)
    IN IF old_middle = <<>> THEN Insert(prefix_len, new_middle)
       ELSE IF new_middle = <<>> THEN Delete(prefix_len, prefix_len + Len(old_middle))
       ELSE Replace(prefix_len, prefix_len + Len(old_middle), new_middle)

\* C1: for every pair (old_text, new_text), diff returns operations, and
\* applying them to old_text through apply_sync yields exactly new_text.
RoundTrip ==
    RunEnded => (pc = "applied" /\ ~state_panic /\ state.text = new_text)

\* (C1 on the pairs diff returns for: the applied operations yield new_text.)
RoundTripWhenReturned ==
    pc = "applied" => (~state_panic /\ state.text = new_text)

\* C2: diff returns the empty list if and only if old_text = new_text.
DiffEmptyIffEqual ==
    DiffEnded =>
        ((~operations.panic /\ operations.ops = <<>>) <=> (old_text = new_text))

\* C2 witness: diff has returned a non-empty list for two different texts.
DiffEmptyIffEqualWitness ==
    /\ pc = "diffed"
    /\ old_text /= new_text
    /\ ~operations.panic
    /\ Len(operations.ops) >= 1

\* C3: diff never returns more than one operation, and for old_text /= new_text
\* it returns exactly the one operation of the single-hunk policy.
SingleHunk ==
    DiffEnded =>
        /\ ~operations.panic
        /\ Len(operations.ops) <= 1
        /\ old_text /= new_text =>
              operations.ops = <<ExpectedOperation(old_text, new_text)>>

\* (C3 on the pairs diff returns for.)
SingleHunkWhenReturned ==
    DiffReturned =>
        /\ Len(operations.ops) <= 1
        /\ old_text /= new_text =>
              operations.ops = <<ExpectedOperation(old_text, new_text)>>

\* (C4, the arithmetic half: the common prefix and the common suffix never overlap.)
NoOverlap ==
    LET common_prefix == find_common_prefix(old_text, new_text)
        common_suffix == find_common_suffix(old_text, new_text, common_prefix)
    IN /\ common_suffix >= 0
       /\ common_prefix + common_suffix <= Min(Len(old_text), Len(new_text))

\* C4: diff is total: for every pair it returns (no slice of it panics), and
\* the common prefix and the common suffix never overlap.
DiffTotal ==
    DiffEnded => (~operations.panic /\ NoOverlap)

(***************************************************************************)
(* Properties of the Document (checked under SpecDoc).                      *)
(***************************************************************************)
IsPrefix(a, b) == Len(a) <= Len(b) /\ SubSeq(b, 1, Len(a)) = a
IsSuffix(a, b) == Len(a) <= Len(b) /\ SubSeq(b, Len(b) - Len(a) + 1, Len(b)) = a
Front(q) == SubSeq(q, 1, Len(q) - 1)
Last(q) == q[Len(q)]

\* C5: after apply_update calls u1..un (n >= 1) and nothing else on a new
\* Document, the content is un.content and the history is exactly <<u1, ..., un>>.
LastArrivalWins ==
    (only_applies /\ Len(applied_log) >= 1) =>
        /\ content = Last(applied_log).content
        /\ history = applied_log

\* C5 witness: two updates with different contents have been applied in a row.
LastArrivalWinsWitness ==
    /\ only_applies
    /\ last_op = "apply_update"
    /\ Len(applied_log) >= 2
    /\ applied_log[1].content /= applied_log[2].content
    /\ content = applied_log[2].content

\* C6 as stated: in every step the previous history is a prefix of the new
\* history, or the new history is the previous one with entries dropped from
\* the oldest end only.
AppendOnly ==
    [][IsPrefix(history, history') \/ IsSuffix(history', history)]_vars

\* C6 as amended: in every step the previous history is a prefix of the new
\* history, or the new history is the previous one (of two or more entries)
\* without its newest entry; no entry that stays is changed and nothing is
\* dropped from the oldest end.
AppendOrPopNewest ==
    [][\/ IsPrefix(history, history')
       \/ (Len(history) >= 2 /\ history' = Front(history))]_vars

\* C6 witness: undo_last_update has removed the newest of the entries.
AppendOrPopNewestWitness ==
    /\ last_op = "undo_last_update"
    /\ doc_ret /= None
    /\ Len(history) < Len(applied_log)

\* C7: undo_last_update on a history of fewer than two entries returns none
\* and leaves content and history unchanged.
UndoWithoutGroundIsNoOp ==
    [][(last_op' = "undo_last_update" /\ Len(history) < 2) =>
          (doc_ret' = None /\ content' = content /\ history' = history)]_vars

\* C7 witness: undo_last_update has been called on a one-entry history.
UndoWithoutGroundIsNoOpWitness ==
    /\ last_op = "undo_last_update"
    /\ doc_ret = None
    /\ Len(history) = 1

\* C8: undo_last_update on a history of n >= 2 entries removes exactly the
\* newest entry, sets content to the content of the entry that is now last
\* and returns that entry; the n-1 older entries are unchanged.
UndoPopsNewest ==
    [][(last_op' = "undo_last_update" /\ Len(history) >= 2) =>
          /\ history' = Front(history)
          /\ content' = history[Len(history) - 1].content
          /\ doc_ret' = Some(history[Len(history) - 1])]_vars

\* C8 witness: undo_last_update has returned the entry that is now last, and
\* the entry it removed had another content.
UndoPopsNewestWitness ==
    /\ last_op = "undo_last_update"
    /\ Len(history) >= 1
    /\ doc_ret = Some(Last(history))
    /\ Len(applied_log) = Len(history) + 1
    /\ Last(applied_log).content /= content

(***************************************************************************)
(* Properties of VersionControl (checked under SpecVc).                     *)
(***************************************************************************)
\* C9: in every reachable state both stacks hold at most max_history entries.
HistoryCap ==
    /\ Len(undo_stack) <= max_history
    /\ Len(redo_stack) <= max_history

\* C10: with max_history = m >= 1 fixed, after k > m track_change calls in a
\* row the undo stack holds exactly the last m tracked snapshots, in order.
EvictsOldestFirst ==
    (cap_fixed /\ max_history >= 1 /\ Len(track_run) > max_history) =>
        undo_stack = SubSeq(track_run, Len(track_run) - max_history + 1, Len(track_run))

\* C10 witness: more snapshots than the cap were tracked in a row and the
\* first of them is no longer on the undo stack.
EvictsOldestFirstWitness ==
    /\ cap_fixed
    /\ max_history >= 1
    /\ last_op = "track_change"
    /\ Len(track_run) > max_history
    /\ \A i \in 1..Len(undo_stack) : undo_stack[i] /= track_run[1]

\* C11: immediately after every track_change, whatever came before, the redo
\* stack is empty and redo returns none (and changes nothing).
TrackChangeClearsRedo ==
    last_op = "track_change" =>
        /\ redo_stack = <<>>
        /\ \A c \in Snapshots : redo(Vc, c) = [vc |-> Vc, ret |-> None]

\* C11 witness: track_change has been called with entries on the redo stack.
TrackChangeClearsRedoWitness ==
    /\ last_op = "track_change"
    /\ redo_before >= 1
    /\ redo_stack = <<>>

\* C12: undo on an empty undo stack returns none and leaves both stacks
\* unchanged; redo on an empty redo stack returns none and leaves both unchanged.
ExhaustedHistoryIsNoOp ==
    [][/\ (last_op' = "undo" /\ undo_stack = <<>>) =>
            (vc_ret' = None /\ undo_stack' = undo_stack /\ redo_stack' = redo_stack)
       /\ (last_op' = "redo" /\ redo_stack = <<>>) =>
            (vc_ret' = None /\ undo_stack' = undo_stack /\ redo_stack' = redo_stack)]_vars

\* C12 witness: undo has been called on an empty undo stack while the redo
\* stack held entries, and returned none.
ExhaustedHistoryIsNoOpWitness ==
    /\ last_op = "undo"
    /\ vc_ret = None
    /\ undo_stack = <<>>
    /\ redo_stack /= <<>>

\* C13: undo(current) on a non-empty undo stack returns its top entry, removes
\* it and pushes current on top of the redo stack; redo(current) on a non-empty
\* redo stack returns its top entry, removes it and pushes current on top of
\* the undo stack; no other entry is touched.
UndoRedoMoveTop ==
    [][/\ (last_op' = "undo" /\ undo_stack /= <<>>) =>
            /\ vc_ret' = Some(Last(undo_stack))
            /\ undo_stack' = Front(undo_stack)
            /\ redo_stack' = Append(redo_stack, last_args'[1])
       /\ (last_op' = "redo" /\ redo_stack /= <<>>) =>
            /\ vc_ret' = Some(Last(redo_stack))
            /\ redo_stack' = Front(redo_stack)
            /\ undo_stack' = Append(undo_stack, last_args'[1])]_vars

\* C13 witness: undo has returned an entry while older entries stay on the
\* undo stack, and the state passed to it is on top of the redo stack.
UndoRedoMoveTopWitness ==
    /\ last_op = "undo"
    /\ vc_ret /= None
    /\ undo_stack /= <<>>
    /\ vc_ret[1] /= Last(undo_stack)
    /\ Last(redo_stack) = last_args[1]
    /\ last_args[1] /= vc_ret[1]

(***************************************************************************)
(* Scenario 4: one EditorState under any sequence of its operations. A call *)
(* that panics ends the run: nothing is called on the state afterwards.     *)
(***************************************************************************)
MaxTextLen == 2      \* insert_text / apply_sync are called only while the text fits in this many bytes

Positions == 0..(MaxTextLen + 1)
InsertTexts == {<<97>>, <<98>>, <<195, 169>>}
SyncTexts == {<<>>, <<97>>, <<195, 169>>}

InitState ==
    /\ DiffIdle
    /\ DocInit
    /\ VcInit
    /\ ExtInit
    /\ last_op = "new"
    /\ last_args = <<>>

\* The outcome r = [panic, state] of a call becomes the state.
StateCall(r, op, args) ==
    /\ state' = r.state
    /\ state_panic' = r.panic
    /\ state_ret' = IF r.panic THEN "panic" ELSE "()"
    /\ last_op' = op
    /\ last_args' = args
    /\ UNCHANGED <<pc, old_text, new_text, operations, doc_vars, vc_vars, ed_ops, scenario, text_before, clients, count_before, net_vars>>

StInsertText(t) ==
    /\ ~state_panic
    /\ Len(state.text) + Len(t) <= MaxTextLen
    /\ StateCall(insert_text(state, t), "insert_text", <<t>>)

StDeleteText(start, end) ==
    /\ ~state_panic
    /\ StateCall(delete_text(state, start, end), "delete_text", <<start, end>>)

StMoveCursor(position) ==
    /\ ~state_panic
    /\ StateCall([panic |-> FALSE, state |-> move_cursor(state, position)],
                 "move_cursor", <<position>>)

StSetSelection(start, end) ==
    /\ ~state_panic
    /\ StateCall([panic |-> FALSE, state |-> set_selection(state, start, end)],
                 "set_selection", <<start, end>>)

StClearSelection ==
    /\ ~state_panic
    /\ StateCall([panic |-> FALSE, state |-> clear_selection(state)],
                 "clear_selection", <<>>)

StReplaceText(t) ==
    /\ ~state_panic
    /\ StateCall([panic |-> FALSE, state |-> replace_text(state, t)],
                 "replace_text", <<t>>)

StApplySync(start, end, t) ==
    /\ ~state_panic
    /\ Len(state.text) + Len(t) <= MaxTextLen
    /\ StateCall(apply_sync(state, start, end, t), "apply_sync", <<start, end, t>>)

NextState ==
    \/ \E t \in InsertTexts : StInsertText(t)
    \/ \E start, end \in Positions : StDeleteText(start, end)
    \/ \E position \in Positions : StMoveCursor(position)
    \/ \E start, end \in Positions : StSetSelection(start, end)
    \/ StClearSelection
    \/ \E t \in SyncTexts : StReplaceText(t)
    \/ \E start, end \in Positions, t \in SyncTexts : StApplySync(start, end, t)

SpecState == InitState /\ [][NextState]_vars

(***************************************************************************)
(* Properties of EditorState (checked under SpecState).                     *)
(***************************************************************************)
\* C15: in every reachable state 0 <= cursor_position <= len(text).
CursorInvariant ==
    /\ 0 <= state.cursor_position
    /\ state.cursor_position <= Len(state.text)

\* C15 witness: a text has been deleted from under a cursor that stood at
\* its end, and the cursor is at the start of the deleted range.
CursorInvariantWitness ==
    /\ last_op = "delete_text"
    /\ state_ret = "()"
    /\ last_args[1] < last_args[2]
    /\ Len(state.text) < last_args[2]
    /\ state.cursor_position = last_args[1]

\* C16: in every reachable state a selection, when there is one, satisfies
\* 0 <= start <= end <= len(text).
SelectionInvariant ==
    get_selection_range(state) /= None =>
        LET range == get_selection_range(state)[1]
        IN 0 <= range[1] /\ range[1] <= range[2] /\ range[2] <= Len(state.text)

\* C17: apply_sync(start, end, new_text) with 0 <= start <= end <= len(text)
\* sets text to old[0..start] + new_text + old[end..] and the cursor to
\* start + len(new_text), and leaves the selection unchanged.
ApplySyncReplacesRange ==
    [][(/\ last_op' = "apply_sync"
        /\ 0 <= last_args'[1]
        /\ last_args'[1] <= last_args'[2]
        /\ last_args'[2] <= Len(state.text)) =>
          /\ state_ret' = "()"
          /\ state'.text = SubSeq(state.text, 1, last_args'[1]) \o last_args'[3]
                           \o SubSeq(state.text, last_args'[2] + 1, Len(state.text))
          /\ state'.cursor_position = last_args'[1] + Len(last_args'[3])
          /\ state'.selection_start = state.selection_start
          /\ state'.selection_end = state.selection_end]_vars

\* (C17 on the ranges whose two ends are character boundaries of the text.)
ApplySyncOnBoundaries ==
    [][(/\ last_op' = "apply_sync"
        /\ range_ok(state.text, last_args'[1], last_args'[2])) =>
          /\ state_ret' = "()"
          /\ state'.text = SubSeq(state.text, 1, last_args'[1]) \o last_args'[3]
                           \o SubSeq(state.text, last_args'[2] + 1, Len(state.text))
          /\ state'.cursor_position = last_args'[1] + Len(last_args'[3])
          /\ state'.selection_start = state.selection_start
          /\ state'.selection_end = state.selection_end]_vars

\* C18: delete_text(start, end) with end > len(text) returns an error to its
\* caller and leaves text and cursor unchanged.
DeleteOutOfRangeIsError ==
    [][(last_op' = "delete_text" /\ last_args'[2] > Len(state.text)) =>
          /\ state_ret' = "Err"
          /\ state'.text = state.text
          /\ state'.cursor_position = state.cursor_position]_vars

\* C19: apply_sync(start, end, new_text) with end > len(text) or start > end
\* returns a bounds-violation error to its caller, leaves text and cursor
\* unchanged and does not end the calling task.
ApplySyncOutOfRangeIsError ==
    [][(/\ last_op' = "apply_sync"
        /\ (last_args'[2] > Len(state.text) \/ last_args'[1] > last_args'[2])) =>
          /\ state_ret' = "Err"
          /\ ~state_panic'
          /\ state'.text = state.text
          /\ state'.cursor_position = state.cursor_position]_vars

(***************************************************************************)
(* Scenario 5: one Editor (editor/editor.rs): an EditorState and a          *)
(* VersionControl driven by insert_text, delete_text, move_cursor, undo and *)
(* redo. peer_sync only reads the state and is left out.                    *)
(***************************************************************************)
MaxEditorOps == 6    \* at most this many calls are made on the Editor

EditorTexts == {<<97>>, <<98>>, <<99>>}
EditorRanges == {<<0, 1>>, <<1, 2>>, <<0, 9>>}
EditorPositions == {0, 9}

\* The calls of C14: three insertions that leave "a", "ab", "abc" tracked,
\* then undo, undo, redo.
Script ==
    << <<"insert_text", <<97>>>>, <<"insert_text", <<98>>>>, <<"insert_text", <<99>>>>,
       <<"undo">>, <<"undo">>, <<"redo">> >>

Follow(call) ==
    IF scenario >= 0 /\ scenario < Len(Script) /\ Script[scenario + 1] = call
    THEN scenario + 1
    ELSE -1

InitEditor ==
    /\ DiffIdle
    /\ DocInit
    /\ VcInit
    /\ ExtInit
    /\ last_op = "new"
    /\ last_args = <<>>

editor_frame == <<pc, old_text, new_text, operations, doc_vars, vc_ret, track_run,
                  redo_before, cap_fixed, clients, count_before, net_vars>>

\* One more call on an Editor that has not panicked.
EditorCall ==
    /\ ~state_panic
    /\ ed_ops < MaxEditorOps
    /\ ed_ops' = ed_ops + 1
    /\ text_before' = state.text

\* state.<edit>(..); version_control.track_change(&state): r is the outcome of the edit.
EditAndTrack(r) ==
    /\ state' = r.state
    /\ state_panic' = r.panic
    /\ state_ret' = IF r.panic THEN "panic" ELSE "()"
    /\ LET v == IF r.panic THEN Vc ELSE track_change(Vc, r.state)
       IN /\ undo_stack' = v.undo_stack
          /\ redo_stack' = v.redo_stack
          /\ max_history' = v.max_history

EditorInsertText(t) ==
    /\ EditorCall
    /\ EditAndTrack(insert_text(state, t))
    /\ scenario' = Follow(<<"insert_text", t>>)
    /\ last_op' = "insert_text"
    /\ last_args' = <<t>>
    /\ UNCHANGED editor_frame

EditorDeleteText(start, end) ==
    /\ EditorCall
    /\ EditAndTrack(delete_text(state, start, end))
    /\ scenario' = Follow(<<"delete_text", start, end>>)
    /\ last_op' = "delete_text"
    /\ last_args' = <<start, end>>
    /\ UNCHANGED editor_frame

EditorMoveCursor(position) ==
    /\ EditorCall
    /\ state' = move_cursor(state, position)
    /\ state_ret' = "()"
    /\ scenario' = Follow(<<"move_cursor", position>>)
    /\ last_op' = "move_cursor"
    /\ last_args' = <<position>>
    /\ UNCHANGED <<state_panic, undo_stack, redo_stack, max_history, editor_frame>>

\* if let Some(s) = version_control.<undo or redo>(&state) { state = s }
Restore(r) ==
    /\ state' = IF r.ret /= None THEN r.ret[1] ELSE state
    /\ undo_stack' = r.vc.undo_stack
    /\ redo_stack' = r.vc.redo_stack
    /\ max_history' = r.vc.max_history

EditorUndo ==
    /\ EditorCall
    /\ Restore(undo(Vc, state))
    /\ scenario' = Follow(<<"undo">>)
    /\ last_op' = "undo"
    /\ last_args' = <<>>
    /\ UNCHANGED <<state_panic, state_ret, editor_frame>>

EditorRedo ==
    /\ EditorCall
    /\ Restore(redo(Vc, state))
    /\ scenario' = Follow(<<"redo">>)
    /\ last_op' = "redo"
    /\ last_args' = <<>>
    /\ UNCHANGED <<state_panic, state_ret, editor_frame>>

NextEditor ==
    \/ \E t \in EditorTexts : EditorInsertText(t)
    \/ \E range \in EditorRanges : EditorDeleteText(range[1], range[2])
    \/ \E position \in EditorPositions : EditorMoveCursor(position)
    \/ EditorUndo
    \/ EditorRedo

SpecEditor == InitEditor /\ [][NextEditor]_vars

\* C14: after "a", "ab", "abc" have been tracked in that order, undo twice and
\* then redo once, each passed the current state and each result becoming the
\* current state, leave the current state equal to "ab".
UndoUndoRedoRestoresAb ==
    scenario = Len(Script) => state.text = <<97, 98>>

(***************************************************************************)
(* Scenario 6: the client registry under add_client and remove_client.      *)
(***************************************************************************)
InitClients ==
    /\ DiffIdle
    /\ DocInit
    /\ VcInit
    /\ ExtInit
    /\ last_op = "new"
    /\ last_args = <<>>

clients_frame == <<diff_vars, doc_vars, vc_vars, state_ret, ed_ops, scenario, text_before, net_vars>>

AddClient(id, client) ==
    /\ ~bc.active
    /\ clients' = add_client(clients, id, client)
    /\ count_before' = get_client_count(clients)
    /\ last_op' = "add_client"
    /\ last_args' = <<id, client>>
    /\ UNCHANGED clients_frame

RemoveClient(id) ==
    /\ ~bc.active
    /\ clients' = remove_client(clients, id)
    /\ count_before' = get_client_count(clients)
    /\ last_op' = "remove_client"
    /\ last_args' = <<id>>
    /\ UNCHANGED clients_frame

NextClients ==
    \/ \E id \in ClientIds, client \in OwnClients : AddClient(id, client)
    \/ \E id \in ClientIds : RemoveClient(id)

SpecClients == InitClients /\ [][NextClients]_vars

\* C20: add_client with a key already present replaces that entry and leaves
\* the count unchanged; remove_client with a key not present changes nothing;
\* after add(id, c) get_client_by_id(id) returns c and after remove(id) it
\* returns none; no entry under another key is affected.
RegistryAddRemove ==
    [][/\ last_op' = "add_client" =>
            /\ get_client_by_id(clients', last_args'[1]) = Some(last_args'[2])
            /\ clients[last_args'[1]] /= None =>
                  get_client_count(clients') = get_client_count(clients)
            /\ \A k \in ClientIds \ {last_args'[1]} : clients'[k] = clients[k]
       /\ last_op' = "remove_client" =>
            /\ get_client_by_id(clients', last_args'[1]) = None
            /\ clients[last_args'[1]] = None => clients' = clients
            /\ \A k \in ClientIds \ {last_args'[1]} : clients'[k] = clients[k]]_vars

\* C20 witness: add_client has been called with a key that was present, beside
\* another registered key: the count is what it was and the key holds the new client.
RegistryAddRemoveWitness ==
    /\ last_op = "add_client"
    /\ count_before = get_client_count(clients)
    /\ get_client_count(clients) >= 2
    /\ clients[last_args[1]] = Some(last_args[2])
    /\ last_args[2].id /= last_args[1]

(***************************************************************************)
(* Scenario 7: broadcast_message (client.rs) and broadcast_update           *)
(* (websocket.rs) over a registry whose clients each hold the sender of      *)
(* their own channel, as handle_websocket registers them, or no sender      *)
(* (Client::disconnect). The loop runs under the registry lock, one entry   *)
(* per step and in any order; receivers are dropped by other tasks at any   *)
(* time.                                                                    *)
(***************************************************************************)
MaxBroadcasts == 2   \* at most this many broadcast calls are made

BroadcastOps == {"broadcast_message", "broadcast_update"}

\* The text each of them sends: its argument, or the update it serialized.
MessageOf(op) == IF op = "broadcast_message" THEN "m1" ELSE "m2"

Registered(cl) == {id \in ClientIds : cl[id] /= None}

\* The registries handle_websocket and Client::disconnect can leave behind.
Registries ==
    [ClientIds -> {None} \cup
        {Some([id |-> id, username |-> "u1", sender |-> snd]) :
            id \in ClientIds, snd \in Senders}]

InitBroadcast ==
    /\ DiffIdle
    /\ DocInit
    /\ VcInit
    /\ ed_ops = 0
    /\ text_before = <<>>
    /\ state_ret = "()"
    /\ scenario = 0
    /\ count_before = 0
    /\ clients \in {cl \in Registries :
            \A id \in Registered(cl) :
                /\ cl[id][1].id = id
                /\ cl[id][1].sender \in {None, Some(ChannelOf(id))}}
    /\ chan \in [Channels -> {Channel_new, [Channel_new EXCEPT !.open = FALSE]}]
    /\ bc = Broadcast_idle
    /\ server = "none"
    /\ SrvIdle
    /\ SideIdle
    /\ AppInit
    /\ last_op = "new"
    /\ last_args = <<>>

broadcast_frame == <<diff_vars, doc_vars, vc_vars, state_ret, ed_ops, scenario, text_before, count_before,
                    srv_vars, app_vars, side_vars>>

\* let clients_guard = clients.lock().unwrap(); the loop is about to start.
BroadcastCall(op, message) ==
    /\ ~bc.active
    /\ bc.calls < MaxBroadcasts
    /\ bc' = [active |-> TRUE, todo |-> Registered(clients), msg |-> message,
              order |-> <<>>, calls |-> bc.calls + 1]
    /\ last_op' = op
    /\ last_args' = <<message>>
    /\ UNCHANGED <<clients, chan, broadcast_frame>>

\* One iteration of the loop, for the entry the iterator yields next.
BroadcastVisit(id) ==
    /\ bc.active
    /\ id \in bc.todo
    /\ LET r == broadcast_visit(clients, chan, id, bc.msg)
       IN /\ clients' = r.clients
          /\ chan' = r.chan
          /\ bc' = [bc EXCEPT !.todo = broadcast_rest(bc.todo, id, r.ok),
                              !.order = Append(@, id)]
    /\ UNCHANGED <<last_op, last_args, broadcast_frame>>

\* The loop is over; the guard is dropped.
BroadcastReturn ==
    /\ bc.active
    /\ bc.todo = {}
    /\ bc' = [bc EXCEPT !.active = FALSE]
    /\ UNCHANGED <<clients, chan, last_op, last_args, broadcast_frame>>

\* The receiver of a channel is dropped (its send_task ended).
CloseChannel(ch) ==
    /\ chan[ch].open
    /\ chan' = [chan EXCEPT ![ch].open = FALSE]
    /\ UNCHANGED <<clients, bc, last_op, last_args, broadcast_frame>>

NextBroadcast ==
    \/ \E op \in BroadcastOps : BroadcastCall(op, MessageOf(op))
    \/ \E id \in ClientIds : BroadcastVisit(id)
    \/ BroadcastReturn
    \/ \E ch \in Channels : CloseChannel(ch)
    \/ \E id \in ClientIds : RemoveClient(id)

SpecBroadcast == InitBroadcast /\ [][NextBroadcast]_vars

(***************************************************************************)
(* Properties of the registry broadcast (checked under SpecBroadcast).      *)
(***************************************************************************)
Visited == {bc.order[i] : i \in 1..Len(bc.order)}

\* C21: in one broadcast call every iteration whose client holds the sender
\* of an open channel queues the message on that channel, whatever happened
\* in the iterations before it, and the call returns only after it has
\* visited every registered client, in whatever order.
PartialFailureIsolation ==
    [][/\ (bc.active /\ Len(bc'.order) = Len(bc.order) + 1) =>
            LET client == clients[Last(bc'.order)][1]
            IN (client.sender /= None /\ chan[client.sender[1]].open) =>
                  chan'[client.sender[1]].queue =
                      Append(chan[client.sender[1]].queue, bc.msg)
       /\ (bc.active /\ ~bc'.active) => Visited = Registered(clients)]_vars

\* C21 witness: a broadcast over three clients has returned; the first it
\* visited had a closed channel, the second no sender, and the third has the
\* message on its channel.
PartialFailureIsolationWitness ==
    /\ ~bc.active
    /\ Len(bc.order) = 3
    /\ Registered(clients) = ClientIds
    /\ clients[bc.order[1]][1].sender /= None
    /\ ~chan[ChannelOf(bc.order[1])].open
    /\ chan[ChannelOf(bc.order[1])].queue = <<>>
    /\ clients[bc.order[2]][1].sender = None
    /\ clients[bc.order[3]][1].sender /= None
    /\ chan[ChannelOf(bc.order[3])].queue /= <<>>
    /\ Last(chan[ChannelOf(bc.order[3])].queue) = bc.msg

\* C24: no step of a broadcast call, from taking the lock to returning,
\* changes the registry: the registered ids and every entry stay as they were,
\* also when a send failed.
BroadcastKeepsRegistry ==
    [][(bc.active \/ bc'.active) => clients' = clients]_vars

\* C24 witness: a broadcast has returned in which the send to a registered
\* client failed, and that client is still registered.
BroadcastKeepsRegistryWitness ==
    /\ ~bc.active
    /\ bc.calls >= 1
    /\ last_op \in BroadcastOps
    /\ \E id \in Visited :
          /\ clients[id] /= None
          /\ clients[id][1].sender /= None
          /\ ~chan[ChannelOf(id)].open
          /\ chan[ChannelOf(id)].queue = <<>>

(***************************************************************************)
(* Scenario 8: the connection handlers, handle_socket (main.rs) and         *)
(* handle_websocket (websocket.rs). A handler registers its connection,     *)
(* spawns its tasks, waits in select! for the first of them to end and then *)
(* removes the connection from the registry. select! drops the JoinHandles  *)
(* of the other tasks, which detaches them: they run on. What the socket    *)
(* delivers, and whether a write to it succeeds, is up to the peer.         *)
(***************************************************************************)
MaxEvents == 2       \* at most this many inbound socket events are taken

Servers == {"handle_socket", "handle_websocket"}

\* What the inbound stream can yield: a text message that decodes into an
\* update, a message that is not text, a text that is not JSON, a JSON text
\* without a string "content" or without a string "user", or an error.
InboundKinds == {"update", "binary", "bad_json", "no_content", "no_user", "error"}

\* A variant of the inbound loop of handle_websocket that ends at a text it cannot decode.
handle_websocket_recv_strict(kind, send_ok) ==
    CASE kind = "update" -> IF send_ok THEN "broadcast" ELSE "break"
      [] kind \in {"error", "binary"} -> "skip"
      [] OTHER -> "break"

\* One round of the inbound loop of handle_websocket (websocket.rs:54-71).
handle_websocket_recv(kind, send_ok) ==
    CASE kind = "update" -> IF send_ok THEN "broadcast" ELSE "break"
      [] OTHER -> "skip"

\* One round of the inbound loop of handle_socket (main.rs:76-86):
\* serde_json::from_str(text).unwrap() panics on a text it cannot decode.
handle_socket_recv(kind) ==
    CASE kind = "update" -> "broadcast"
      [] kind \in {"error", "binary"} -> "skip"
      [] OTHER -> "panic"

is_registered(k) ==
    IF server = "handle_socket" THEN registry[k] /= None ELSE clients[k] /= None

InitServer ==
    /\ DiffIdle
    /\ DocInit
    /\ VcInit
    /\ ed_ops = 0
    /\ text_before = <<>>
    /\ state_ret = "()"
    /\ scenario = 0
    /\ clients = Clients_new
    /\ count_before = 0
    /\ chan = [ch \in Channels |-> Channel_new]
    /\ bc = Broadcast_idle
    /\ server \in Servers
    /\ SrvIdle
    /\ SideIdle
    /\ AppInit
    /\ last_op = "new"
    /\ last_args = <<>>

server_frame == <<diff_vars, doc_vars, vc_vars, state_ret, ed_ops, scenario, text_before, count_before,
                  bc, server, peers, app_vars, side_vars>>

\* The handler up to its select!: the connection is registered, the tasks are spawned.
Accept(k) ==
    /\ conns[k].handler = "idle"
    /\ IF server = "handle_socket"
       THEN /\ registry' = [registry EXCEPT ![k] = Some(ChannelOf(k))]
            /\ conns' = [conns EXCEPT ![k] = [Conn_new EXCEPT !.handler = "select",
                            !.recv = "run", !.send = "run", !.fwd = "run"]]
            /\ UNCHANGED clients
       ELSE /\ clients' = add_client(clients, k,
                    [id |-> k, username |-> "username", sender |-> Some(ChannelOf(k))])
            /\ conns' = [conns EXCEPT ![k] = [Conn_new EXCEPT !.handler = "select",
                            !.recv = "run", !.send = "run"]]
            /\ UNCHANGED registry
    /\ last_op' = "accept"
    /\ last_args' = <<k>>
    /\ UNCHANGED <<chan, events, server_frame>>

\* handle_websocket: verify_session fails and the handler returns before it registers.
Reject(k) ==
    /\ server = "handle_websocket"
    /\ conns[k].handler = "idle"
    /\ conns' = [conns EXCEPT ![k].handler = "done"]
    /\ last_op' = "reject"
    /\ last_args' = <<k>>
    /\ UNCHANGED <<clients, registry, chan, events, server_frame>>

\* recv_task takes one event from the socket.
Receive(k, kind, send_ok) ==
    /\ conns[k].recv = "run"
    /\ events < MaxEvents
    /\ events' = events + 1
    /\ LET outcome == IF server = "handle_socket"
                      THEN handle_socket_recv(kind)
                      ELSE handle_websocket_recv(kind, send_ok)
           subscribed(j) == server = "handle_socket" /\ conns[j].send = "run"
       IN /\ conns' = [j \in Conns |->
                [conns[j] EXCEPT
                    !.recv = IF j /= k THEN @
                             ELSE CASE outcome = "panic" -> "panic"
                                    [] outcome = "break" -> "done"
                                    [] OTHER -> "run",
                    !.rx = IF outcome = "broadcast" /\ subscribed(j)
                           THEN Append(@, k) ELSE @]]
          /\ last_args' = <<k, kind, outcome>>
    /\ last_op' = "receive"
    /\ UNCHANGED <<clients, registry, chan, server_frame>>

\* The inbound stream of the socket ends.
StreamEnd(k) ==
    /\ conns[k].recv = "run"
    /\ conns' = [conns EXCEPT ![k].recv = "done"]
    /\ last_op' = "stream_end"
    /\ last_args' = <<k>>
    /\ UNCHANGED <<clients, registry, chan, events, server_frame>>

\* Another component queues a message for a registered client (handle_websocket).
Deliver(k) ==
    /\ server = "handle_websocket"
    /\ clients[k] /= None
    /\ chan[ChannelOf(k)].open
    /\ chan[ChannelOf(k)].queue = <<>>
    /\ chan' = send(chan, ChannelOf(k), "m1").chan
    /\ last_op' = "deliver"
    /\ last_args' = <<k>>
    /\ UNCHANGED <<clients, registry, conns, events, server_frame>>

\* send_task takes the next message and writes it to the socket; the task
\* ends when the write fails.
Write(k, ok) ==
    /\ conns[k].send = "run"
    /\ IF server = "handle_socket"
       THEN /\ conns[k].rx /= <<>>
            /\ conns' = [conns EXCEPT ![k] =
                    IF ok THEN [@ EXCEPT !.rx = Tail(@), !.out = @ \cup {conns[k].rx[1]}]
                    ELSE [@ EXCEPT !.rx = <<>>, !.send = "done"]]
            /\ UNCHANGED chan
       ELSE /\ chan[ChannelOf(k)].queue /= <<>>
            /\ conns' = [conns EXCEPT ![k] =
                    IF ok THEN [@ EXCEPT !.out = @ \cup {chan[ChannelOf(k)].queue[1]}]
                    ELSE [@ EXCEPT !.send = "done"]]
            /\ chan' = [chan EXCEPT ![ChannelOf(k)] =
                    IF ok THEN [@ EXCEPT !.queue = Tail(@)]
                    ELSE [open |-> FALSE, queue |-> <<>>]]
    /\ last_op' = "write"
    /\ last_args' = <<k, ok>>
    /\ UNCHANGED <<clients, registry, events, server_frame>>

\* receiver.recv() returns None once every sender of the channel is dropped:
\* forward_task of handle_socket ends after the registry entry is removed,
\* send_task of handle_websocket after the handler has returned.
SendersGone(k) ==
    /\ conns[k].handler = "done"
    /\ chan[ChannelOf(k)].queue = <<>>
    /\ IF server = "handle_socket"
       THEN /\ conns[k].fwd = "run"
            /\ conns' = [conns EXCEPT ![k].fwd = "done"]
       ELSE /\ conns[k].send = "run"
            /\ conns' = [conns EXCEPT ![k].send = "done"]
    /\ chan' = [chan EXCEPT ![ChannelOf(k)].open = FALSE]
    /\ last_op' = "senders_gone"
    /\ last_args' = <<k>>
    /\ UNCHANGED <<clients, registry, events, server_frame>>

\* select! returns because one of the tasks has ended (or panicked); the
\* handler removes the connection from the registry and returns.
HandlerSelect(k) ==
    /\ conns[k].handler = "select"
    /\ \/ conns[k].recv /= "run"
       \/ conns[k].send /= "run"
       \/ conns[k].fwd \notin {"run", "idle"}
    /\ conns' = [conns EXCEPT ![k].handler = "done"]
    /\ IF server = "handle_socket"
       THEN registry' = [registry EXCEPT ![k] = None] /\ UNCHANGED clients
       ELSE clients' = remove_client(clients, k) /\ UNCHANGED registry
    /\ last_op' = "select"
    /\ last_args' = <<k>>
    /\ UNCHANGED <<chan, events, server_frame>>

NextServer ==
    \/ \E k \in Conns : Accept(k)
    \/ \E k \in Conns : Reject(k)
    \/ \E k \in Conns, kind \in InboundKinds, send_ok \in BOOLEAN : Receive(k, kind, send_ok)
    \/ \E k \in Conns : StreamEnd(k)
    \/ \E k \in Conns : Deliver(k)
    \/ \E k \in Conns, ok \in BOOLEAN : Write(k, ok)
    \/ \E k \in Conns : SendersGone(k)
    \/ \E k \in Conns : HandlerSelect(k)

SpecServer == InitServer /\ [][NextServer]_vars

\* The handler of a connection is scheduled once one of its tasks has ended.
SpecServerFair == SpecServer /\ \A k \in Conns : WF_vars(HandlerSelect(k))

(***************************************************************************)
(* Properties of the connection handlers (checked under SpecServer and,     *)
(* for the eventual removal, SpecServerFair).                               *)
(***************************************************************************)
TaskEnded(k) ==
    \/ conns[k].recv \in {"done", "panic"}
    \/ conns[k].send = "done"
    \/ conns[k].fwd = "done"

\* C22: an update that came in on connection A is never written to the
\* socket of A itself.
NoEchoToSender ==
    \A k \in Conns : k \notin conns[k].out

\* C25: a registered connection one of whose tasks has ended is eventually
\* removed from the registry; a connection whose handler has returned is
\* never registered again; and when no handler is waiting for its tasks any
\* more, nothing is registered.
ConnectionLifecycle ==
    /\ \A k \in Conns : (is_registered(k) /\ TaskEnded(k)) ~> ~is_registered(k)
    /\ [][\A k \in Conns : conns[k].handler = "done" => ~is_registered(k)']_vars
    /\ []((\A k \in Conns : conns[k].handler = "done") =>
             (\A k \in Conns : ~is_registered(k)))

\* C25 witness: both connections were registered and have been removed, one
\* after its inbound loop ended and one after a write to its socket failed.
ConnectionLifecycleWitness ==
    /\ \A k \in Conns : conns[k].handler = "done" /\ ~is_registered(k)
    /\ conns["c1"].recv = "done"
    /\ conns["c1"].send = "run"
    /\ conns["c2"].send = "done"
    /\ conns["c2"].recv = "run"

\* C26: once the handler of a connection has removed it from the registry,
\* none of the tasks of that connection is running any more.
TeardownStopsBothLoops ==
    \A k \in Conns : conns[k].handler = "done" =>
        /\ conns[k].recv /= "run"
        /\ conns[k].send /= "run"
        /\ conns[k].fwd /= "run"

\* An inbound event that is not a decodable update is dropped: nothing is
\* broadcast or queued, the registry is as it was and the inbound loop of the
\* connection is still running.
Dropped(k) ==
    /\ last_args'[3] = "skip"
    /\ \A j \in Conns : conns'[j].rx = conns[j].rx
    /\ chan' = chan
    /\ clients' = clients
    /\ registry' = registry
    /\ conns'[k].recv = "run"

\* C27: in handle_websocket an inbound message that is not text, is not JSON
\* or lacks a string "content" or "user" produces no update and no
\* broadcast, the client stays registered and the inbound loop goes on.
MalformedIsDroppedByWebsocket ==
    [][(/\ server = "handle_websocket"
        /\ events' = events + 1
        /\ last_args'[2] /= "update") => Dropped(last_args'[1])]_vars

\* C27 witness: handle_websocket has taken two events from one connection,
\* the second a text that is not JSON, and the connection is registered with
\* its inbound loop running.
MalformedIsDroppedByWebsocketWitness ==
    /\ server = "handle_websocket"
    /\ last_op = "receive"
    /\ events = 2
    /\ last_args[2] = "bad_json"
    /\ clients[last_args[1]] /= None
    /\ conns[last_args[1]].recv = "run"
    /\ conns[last_args[1]].handler = "select"
    /\ \A j \in Conns \ {last_args[1]} : conns[j].handler = "idle"

\* C28: in handle_socket a text message that cannot be decoded into an
\* update is dropped, the connection stays registered and the inbound loop
\* goes on.
MalformedIsDroppedBySocket ==
    [][(/\ server = "handle_socket"
        /\ events' = events + 1
        /\ last_args'[2] /= "update") => Dropped(last_args'[1])]_vars

(***************************************************************************)
(* Scenario 9: the peer maps of ConnectionManager (connection_manager.rs)   *)
(* and PeerSyncManager (peer_sync.rs). A peer is registered with the sender *)
(* of its own channel; broadcast_message runs under the lock of the map.    *)
(***************************************************************************)
MaxPeerQueue == 1    \* broadcast_message is called while every queue is shorter

Orders == {o \in [1..Cardinality(ClientIds) -> ClientIds] :
              \A i, j \in DOMAIN o : i /= j => o[i] /= o[j]}

\* A variant of broadcast_message that sends to the sender too (broadcast_to_all).
peers_broadcast_to_all(ps, chans, order, sender_id, message) ==
    LET visit[i \in 0..Len(order)] ==
            IF i = 0 THEN chans
            ELSE IF ps[order[i]] /= None
                 THEN send(visit[i - 1], ps[order[i]][1], message).chan
                 ELSE visit[i - 1]
    IN visit[Len(order)]

\* broadcast_message: the loop over the peer map in the order the map yields
\* its entries; the result of send is discarded.
peers_broadcast_message(ps, chans, order, sender_id, message) ==
    LET visit[i \in 0..Len(order)] ==
            IF i = 0 THEN chans
            ELSE IF ps[order[i]] /= None /\ order[i] /= sender_id
                 THEN send(visit[i - 1], ps[order[i]][1], message).chan
                 ELSE visit[i - 1]
    IN visit[Len(order)]

InitPeers ==
    /\ DiffIdle
    /\ DocInit
    /\ VcInit
    /\ ExtInit
    /\ last_op = "new"
    /\ last_args = <<>>

peers_frame == <<diff_vars, doc_vars, vc_vars, state_ret, ed_ops, scenario, text_before, clients,
                 count_before, bc, server, registry, conns, events, app_vars, side_vars>>

\* add_peer / register_peer: a channel is created and the peer is inserted (over
\* an entry of the same id, if there is one) with its sender.
PeerJoin(id) ==
    /\ chan' = [chan EXCEPT ![ChannelOf(id)] = Channel_new]
    /\ peers' = [peers EXCEPT ![id] = Some(ChannelOf(id))]
    /\ last_op' = "add_peer"
    /\ last_args' = <<id>>
    /\ UNCHANGED peers_frame

\* The connection of a peer ends and removes it from the map.
PeerLeave(id) ==
    /\ peers[id] /= None
    /\ peers' = [peers EXCEPT ![id] = None]
    /\ last_op' = "remove_peer"
    /\ last_args' = <<id>>
    /\ UNCHANGED <<chan, peers_frame>>

\* send_task of a peer ends after a failed write and drops the receiver.
PeerChannelClosed(id) ==
    /\ peers[id] /= None
    /\ chan[ChannelOf(id)].open
    /\ chan' = [chan EXCEPT ![ChannelOf(id)].open = FALSE]
    /\ last_op' = "send_task_end"
    /\ last_args' = <<id>>
    /\ UNCHANGED <<peers, peers_frame>>

PeerBroadcast(sender_id, message, order) ==
    /\ \A ch \in Channels : Len(chan[ch].queue) < MaxPeerQueue
    /\ chan' = peers_broadcast_message(peers, chan, order, sender_id, message)
    /\ last_op' = "peers_broadcast_message"
    /\ last_args' = <<sender_id, message>>
    /\ UNCHANGED <<peers, peers_frame>>

NextPeers ==
    \/ \E id \in ClientIds : PeerJoin(id)
    \/ \E id \in ClientIds : PeerLeave(id)
    \/ \E id \in ClientIds : PeerChannelClosed(id)
    \/ \E sender_id \in ClientIds, message \in Messages, order \in Orders :
            PeerBroadcast(sender_id, message, order)

SpecPeers == InitPeers /\ [][NextPeers]_vars

\* C23: broadcast_message queues the message exactly once on the channel of
\* every registered peer other than the sender, and on no other channel.
PeerBroadcastExclusion ==
    [][last_op' = "peers_broadcast_message" =>
          \A id \in ClientIds :
              chan'[ChannelOf(id)].queue =
                  IF peers[id] /= None /\ id /= last_args'[1]
                  THEN Append(chan[ChannelOf(id)].queue, last_args'[2])
                  ELSE chan[ChannelOf(id)].queue]_vars

\* C23, amended: broadcast_message queues the message exactly once on the
\* channel of every registered peer other than the sender whose channel is
\* open, and on no other channel: not on the sender's, not on a closed one.
PeerBroadcastExclusionOpen ==
    [][last_op' = "peers_broadcast_message" =>
          \A id \in ClientIds :
              chan'[ChannelOf(id)].queue =
                  IF peers[id] /= None /\ id /= last_args'[1] /\ chan[ChannelOf(id)].open
                  THEN Append(chan[ChannelOf(id)].queue, last_args'[2])
                  ELSE chan[ChannelOf(id)].queue]_vars

\* C23 witness: a broadcast over three registered peers has left the queue
\* of the sender, whose channel is open, empty, has queued the message once
\* for a second peer and nothing for the third, whose channel is closed.
PeerBroadcastExclusionOpenWitness ==
    /\ last_op = "peers_broadcast_message"
    /\ \A id \in ClientIds : peers[id] /= None
    /\ chan[ChannelOf(last_args[1])] = Channel_new
    /\ \E id \in ClientIds : chan[ChannelOf(id)] = [open |-> TRUE, queue |-> <<last_args[2]>>]
    /\ \E id \in ClientIds : chan[ChannelOf(id)] = [open |-> FALSE, queue |-> <<>>]

(***************************************************************************)
(* Scenario 10: CollaborationManager::apply_edit (editor/collaboration.rs)  *)
(* called by the inbound loops of several connections at once. Each         *)
(* statement of the function is one step of its caller.                     *)
(***************************************************************************)
MaxEdits == 3        \* at most this many apply_edit calls are made

EditContents == {"x", "y"}
Edits == [user : Conns, content : EditContents]

\* A variant of Mutex::lock that does not wait for the holder.
lock_free_ignoring_holder(lock) == TRUE

\* Mutex::lock returns once nobody holds the lock.
lock_free(lock) == lock = None

InitCollab ==
    /\ DiffIdle
    /\ DocInit
    /\ VcInit
    /\ ExtInit
    /\ last_op = "new"
    /\ last_args = <<>>

collab_frame == <<diff_vars, doc_vars, vc_vars, state_ret, ed_ops, scenario, text_before, clients,
                  count_before, chan, bc, srv_vars, wire, side_vars>>

CollabStep(h, from, next) ==
    /\ collab.pc[h] = from
    /\ last_op' = next
    /\ last_args' = <<h>>
    /\ UNCHANGED collab_frame

\* The inbound loop of connection h calls apply_edit(edit).
ApplyEditCall(h, edit) ==
    /\ edit.user = h
    /\ CollabStep(h, "idle", "lock_document")
    /\ Len(collab.effect_log) + Cardinality({j \in Conns : collab.pc[j] = "lock_document"})
          < MaxEdits
    /\ collab' = [collab EXCEPT !.pc[h] = "lock_document", !.edit[h] = Some(edit)]

\* let mut document = self.document.lock().unwrap(); the call takes effect here.
LockDocument(h) ==
    /\ CollabStep(h, "lock_document", "lock_edits")
    /\ lock_free(collab.document_lock)
    /\ collab' = [collab EXCEPT !.pc[h] = "lock_edits", !.document_lock = Some(h),
                                !.effect_log = Append(@, collab.edit[h][1])]

\* let mut edits = self.edits.lock().unwrap();
LockEdits(h) ==
    /\ CollabStep(h, "lock_edits", "push")
    /\ lock_free(collab.edits_lock)
    /\ collab' = [collab EXCEPT !.pc[h] = "push", !.edits_lock = Some(h)]

\* edits.push(edit.clone());
PushEdit(h) ==
    /\ CollabStep(h, "push", "merge")
    /\ collab' = [collab EXCEPT !.pc[h] = "merge", !.edits = Append(@, collab.edit[h][1])]

\* *document = edit.content.clone();
MergeEdit(h) ==
    /\ CollabStep(h, "merge", "return")
    /\ collab' = [collab EXCEPT !.pc[h] = "return", !.document = collab.edit[h][1].content]

\* The function returns: both guards are dropped.
ApplyEditReturn(h) ==
    /\ CollabStep(h, "return", "send")
    /\ collab' = [collab EXCEPT !.pc[h] = "send",
                                !.document_lock = None, !.edits_lock = None]

\* let _ = self.broadcaster.send(edit); the inbound loop then waits for the
\* next message.
BroadcasterSend(h) ==
    /\ CollabStep(h, "send", "idle")
    /\ collab' = [collab EXCEPT !.pc[h] = "idle", !.edit[h] = None,
                                !.broadcaster = Append(@, collab.edit[h][1])]

NextCollab ==
    \/ \E h \in Conns, edit \in Edits : ApplyEditCall(h, edit)
    \/ \E h \in Conns : LockDocument(h)
    \/ \E h \in Conns : LockEdits(h)
    \/ \E h \in Conns : PushEdit(h)
    \/ \E h \in Conns : MergeEdit(h)
    \/ \E h \in Conns : ApplyEditReturn(h)
    \/ \E h \in Conns : BroadcasterSend(h)

SpecCollab == InitCollab /\ [][NextCollab]_vars

InProgress == {h \in Conns : collab.pc[h] \in {"lock_edits", "push", "merge", "return"}}

MaxOps == 2          \* a Sync message carries at most this many operations
MaxPos == 1          \* positions and offsets in the messages are in 0..MaxPos

JNum(n) == [t |-> "num", n |-> n]
JStr(str) == [t |-> "str", s |-> str]
JArr(items) == [t |-> "arr", a |-> items]
JObj(members) == [t |-> "obj", o |-> members]

Sync(ops) == [type |-> "Sync", operations |-> ops]
Cursor(position) == [type |-> "Cursor", cursor_position |-> position]

CodecTexts == {<<>>, <<97>>, <<195, 169>>}
CodecOperations ==
    {Insert(pos, text) : pos \in 0..MaxPos, text \in CodecTexts}
    \cup {Delete(start, end) : start \in 0..MaxPos, end \in 0..MaxPos}
    \cup {Replace(r[1], r[2], text) : r \in (0..MaxPos) \X (0..MaxPos), text \in CodecTexts}
ProtocolMessages ==
    {Sync(ops) : ops \in UNION {[1..n -> CodecOperations] : n \in 0..MaxOps}}
    \cup {Cursor(position) : position \in 0..(MaxPos + 1)}

encode_operation(operation) ==
    CASE operation.op = "Insert" ->
            JObj([Insert |-> JArr(<<JNum(operation.pos), JStr(operation.text)>>)])
      [] operation.op = "Delete" ->
            JObj([Delete |-> JArr(<<JNum(operation.start), JNum(operation.end)>>)])
      [] operation.op = "Replace" ->
            JObj([Replace |-> JArr(<<JNum(operation.start), JNum(operation.end),
                                     JStr(operation.text)>>)])

is_tuple(j, types) ==
    /\ j.t = "arr"
    /\ Len(j.a) = Len(types)
    /\ \A i \in 1..Len(types) : j.a[i].t = types[i]

\* Result<DiffOperation, Error> as a sequence: the operation, or nothing.
decode_operation(j) ==
    IF j.t /= "obj" THEN None
    ELSE IF DOMAIN j.o = {"Insert"} /\ is_tuple(j.o.Insert, <<"num", "str">>)
         THEN Some(Insert(j.o.Insert.a[1].n, j.o.Insert.a[2].s))
    ELSE IF DOMAIN j.o = {"Delete"} /\ is_tuple(j.o.Delete, <<"num", "num">>)
         THEN Some(Delete(j.o.Delete.a[1].n, j.o.Delete.a[2].n))
    ELSE IF DOMAIN j.o = {"Replace"} /\ is_tuple(j.o.Replace, <<"num", "num", "str">>)
         THEN Some(Replace(j.o.Replace.a[1].n, j.o.Replace.a[2].n, j.o.Replace.a[3].s))
    ELSE None

\* A variant of to_json that writes the payload of Cursor without its field name.
to_json_bare_cursor(m) ==
    IF m.type = "Sync"
    THEN JObj([type |-> JStr("Sync"),
               data |-> JObj([operations |->
                   JArr([i \in 1..Len(m.operations) |-> encode_operation(m.operations[i])])])])
    ELSE JObj([type |-> JStr("Cursor"), data |-> JNum(m.cursor_position)])

\* ProtocolMessage::to_json: serde_json::to_string of the adjacently tagged enum.
to_json(m) ==
    IF m.type = "Sync"
    THEN JObj([type |-> JStr("Sync"),
               data |-> JObj([operations |->
                   JArr([i \in 1..Len(m.operations) |-> encode_operation(m.operations[i])])])])
    ELSE JObj([type |-> JStr("Cursor"),
               data |-> JObj([cursor_position |-> JNum(m.cursor_position)])])

\* ProtocolMessage::from_json: Result<ProtocolMessage, Error> as a sequence.
from_json(j) ==
    IF j.t /= "obj" \/ DOMAIN j.o /= {"type", "data"} THEN None
    ELSE IF j.o.type.t /= "str" \/ j.o.data.t /= "obj" THEN None
    ELSE IF j.o.type.s = "Sync"
         THEN IF DOMAIN j.o.data.o /= {"operations"} THEN None
              ELSE IF j.o.data.o.operations.t /= "arr" THEN None
              ELSE LET items == j.o.data.o.operations.a
                   IN IF \E i \in 1..Len(items) : decode_operation(items[i]) = None
                      THEN None
                      ELSE Some(Sync([i \in 1..Len(items) |-> decode_operation(items[i])[1]]))
    ELSE IF j.o.type.s = "Cursor"
         THEN IF DOMAIN j.o.data.o /= {"cursor_position"} THEN None
              ELSE IF j.o.data.o.cursor_position.t /= "num" THEN None
              ELSE Some(Cursor(j.o.data.o.cursor_position.n))
    ELSE None

InitCodec ==
    /\ DiffIdle
    /\ DocInit
    /\ VcInit
    /\ ed_ops = 0
    /\ text_before = <<>>
    /\ state_ret = "()"
    /\ scenario = 0
    /\ clients = Clients_new
    /\ count_before = 0
    /\ chan = [ch \in Channels |-> Channel_new]
    /\ bc = Broadcast_idle
    /\ server = "none"
    /\ SrvIdle
    /\ SideIdle
    /\ collab = CollaborationManager_new
    /\ wire \in {[Wire_idle EXCEPT !.stage = "message", !.msg = Some(m)] : m \in ProtocolMessages}
    /\ last_op = "new"
    /\ last_args = <<>>

codec_frame == <<diff_vars, doc_vars, vc_vars, state_ret, ed_ops, scenario, text_before, clients,
                 count_before, chan, bc, srv_vars, collab, side_vars>>

ToJson ==
    /\ wire.stage = "message"
    /\ wire' = [wire EXCEPT !.stage = "encoded", !.json = Some(to_json(wire.msg[1]))]
    /\ last_op' = "to_json"
    /\ last_args' = <<wire.msg[1]>>
    /\ UNCHANGED codec_frame

FromJson ==
    /\ wire.stage = "encoded"
    /\ wire' = [wire EXCEPT !.stage = "decoded", !.ret = from_json(wire.json[1])]
    /\ last_op' = "from_json"
    /\ last_args' = <<wire.json[1]>>
    /\ UNCHANGED codec_frame

NextCodec ==
    \/ ToJson
    \/ FromJson

SpecCodec == InitCodec /\ [][NextCodec]_vars

\* C30: for every ProtocolMessage m, from_json(to_json(m)) succeeds and
\* equals m, and the encoded form is an object with the variant name under
\* "type" and the payload under "data".
CodecRoundTrip ==
    /\ wire.stage \in {"encoded", "decoded"} =>
          /\ wire.json[1].t = "obj"
          /\ DOMAIN wire.json[1].o = {"type", "data"}
          /\ wire.json[1].o.type = JStr(wire.msg[1].type)
          /\ wire.json[1].o.data.t = "obj"
          /\ DOMAIN wire.json[1].o.data.o =
                IF wire.msg[1].type = "Sync" THEN {"operations"} ELSE {"cursor_position"}
    /\ wire.stage = "decoded" => wire.ret = Some(wire.msg[1])

\* C30 witness: a Sync message with an Insert and a Replace, one of them with
\* a two-byte character, has been encoded and decoded.
CodecRoundTripWitness ==
    /\ wire.stage = "decoded"
    /\ wire.ret /= None
    /\ wire.msg[1].type = "Sync"
    /\ Len(wire.msg[1].operations) = 2
    /\ wire.msg[1].operations[1].op = "Insert"
    /\ wire.msg[1].operations[1].text = <<195, 169>>
    /\ wire.msg[1].operations[2].op = "Replace"

(***************************************************************************)
(* Scenario 12: a HistoryManager created with some max_versions, and       *)
(* add_version calls on it.  Utc::now() is read once per call; the calls    *)
(* are sequential (&mut self) and each writes a file in between, so the     *)
(* readings are taken to be distinct and increasing: the number of the      *)
(* call stands for them.                                                    *)
(***************************************************************************)
MaxAdds == 4         \* at most this many add_version calls
MaxVersions == 2     \* max_versions is 0..MaxVersions

VersionContents == {"v1", "v2"}

InitHistory ==
    /\ DiffIdle
    /\ DocInit
    /\ VcInit
    /\ ed_ops = 0
    /\ text_before = <<>>
    /\ state_ret = "()"
    /\ scenario = 0
    /\ clients = Clients_new
    /\ count_before = 0
    /\ chan = [ch \in Channels |-> Channel_new]
    /\ bc = Broadcast_idle
    /\ server = "none"
    /\ SrvIdle
    /\ AppInit
    /\ hm \in {[History_idle EXCEPT !.self = HistoryManager_new(m)] : m \in 0..MaxVersions}
    /\ RoundIdle
    /\ PConnIdle
    /\ last_op = "new"
    /\ last_args = <<>>

history_frame == <<diff_vars, doc_vars, vc_vars, state_ret, ed_ops, scenario, text_before, clients,
                   count_before, chan, bc, srv_vars, app_vars, round, pconn>>

AddVersion(new_content, saved) ==
    /\ hm.clock < MaxAdds
    /\ LET r == add_version(hm.self, new_content, hm.clock + 1, saved)
       IN  hm' = [self       |-> r.self,
                  added      |-> hm.added \o r.version,
                  evicted    |-> hm.evicted \o r.evicted,
                  ids_before |-> {hm.self.versions[i].version_id :
                                     i \in 1..Len(hm.self.versions)},
                  clock      |-> hm.clock + 1]
    /\ last_op' = IF saved THEN "add_version" ELSE "add_version_err"
    /\ last_args' = <<new_content>>
    /\ UNCHANGED history_frame

NextHistory == \E new_content \in VersionContents, saved \in BOOLEAN :
                    AddVersion(new_content, saved)

SpecHistory == InitHistory /\ [][NextHistory]_vars

\* The last n entries of a sequence.
LastN(q, n) == SubSeq(q, Len(q) - n + 1, Len(q))

\* C31: after any sequence of successful add_version calls at most
\* max_versions versions are retained, they are the most recently added ones
\* in insertion order, and get_version does not return a version that was
\* evicted from the oldest end.
HistoryRetention ==
    /\ Len(hm.self.versions) <= hm.self.max_versions
    /\ list_versions(hm.self) = LastN(hm.added, Min(Len(hm.added), hm.self.max_versions))
    /\ \A i \in 1..Len(hm.evicted) :
          get_version(hm.self, hm.evicted[i].version_id) /= Some(hm.evicted[i])

\* C31 witness: with room for two versions a third and a fourth were added;
\* two were evicted, and the id of the first of them is no longer found.
HistoryRetentionWitness ==
    /\ last_op = "add_version"
    /\ hm.self.max_versions = 2
    /\ Len(hm.added) = 4
    /\ Len(hm.evicted) = 2
    /\ get_version(hm.self, hm.evicted[1].version_id) = None

\* C32: every add_version assigns an id that no retained version has, ids
\* increase from call to call, and get_version(id) returns the version of
\* the one call that was assigned that id, also after evictions.
VersionIdsIdentify ==
    /\ last_op = "add_version" =>
          hm.added[Len(hm.added)].version_id \notin hm.ids_before
    /\ \A i, j \in 1..Len(hm.added) :
          i < j => hm.added[i].version_id < hm.added[j].version_id
    /\ \A i \in 1..Len(hm.self.versions) :
          get_version(hm.self, hm.self.versions[i].version_id) = Some(hm.self.versions[i])

(***************************************************************************)
(* Further properties of the Document of scenario 2.                        *)
(***************************************************************************)
\* C33: in every state reachable from Document::new() by apply_update,
\* undo_last_update and redo_update, the content is the content of the last
\* history entry, and the empty text when the history is empty.
StoreCoherence ==
    /\ history /= <<>> => content = history[Len(history)].content
    /\ history = <<>> => content = <<>>

\* C33 witness: undo_last_update has just removed the second of two updates
\* with different contents, and the content is that of the remaining one.
StoreCoherenceWitness ==
    /\ last_op = "undo_last_update"
    /\ doc_ret /= None
    /\ Len(history) = 1
    /\ Len(applied_log) = 2
    /\ applied_log[2].content /= applied_log[1].content
    /\ content = applied_log[1].content

(***************************************************************************)
(* Scenario 13: an undo / redo round trip on a VersionControl.  It starts   *)
(* from any two stacks of at most MaxTripStack snapshots (track_change      *)
(* builds any undo stack, undo(c) with c of the caller's choice any redo    *)
(* stack) and any current state c; the second call is given what the first  *)
(* returned.                                                                *)
(***************************************************************************)
MaxTripStack == 2    \* each stack holds at most this many snapshots at the start

RECURSIVE StacksUpTo(_)
StacksUpTo(n) ==
    IF n = 0 THEN {<<>>}
    ELSE LET S == StacksUpTo(n - 1) IN S \cup {Append(q, s) : q \in S, s \in Snapshots}

Trips == {<<"undo", "redo">>, <<"redo", "undo">>}

InitUndoRedo ==
    /\ DiffIdle
    /\ DocInit
    /\ undo_stack \in StacksUpTo(MaxTripStack)
    /\ redo_stack \in StacksUpTo(MaxTripStack)
    /\ max_history = VersionControl_new.max_history
    /\ vc_ret = None
    /\ track_run = <<>>
    /\ redo_before = 0
    /\ cap_fixed = TRUE
    /\ ed_ops = 0
    /\ text_before = <<>>
    /\ state_ret = "()"
    /\ scenario = 0
    /\ clients = Clients_new
    /\ count_before = 0
    /\ chan = [ch \in Channels |-> Channel_new]
    /\ bc = Broadcast_idle
    /\ server = "none"
    /\ SrvIdle
    /\ AppInit
    /\ StoreIdle
    /\ PConnIdle
    /\ \E trip \in Trips, c \in Snapshots :
          round = [todo |-> trip, done |-> 0, vc0 |-> Vc, c |-> Some(c), arg |-> Some(c)]
    /\ last_op = "new"
    /\ last_args = <<>>

trip_frame == <<diff_vars, doc_vars, track_run, cap_fixed, state_ret, ed_ops, scenario, text_before,
                clients, count_before, chan, bc, srv_vars, app_vars, hm, pconn>>

\* One call of the trip: what it returned, and how the trip goes on.  A call
\* that returns None ends the trip.
TripCall(name, r) ==
    /\ undo_stack' = r.vc.undo_stack
    /\ redo_stack' = r.vc.redo_stack
    /\ max_history' = r.vc.max_history
    /\ vc_ret' = r.ret
    /\ redo_before' = Len(redo_stack)
    /\ round' = IF r.ret = None THEN [round EXCEPT !.todo = <<>>]
                ELSE [round EXCEPT !.todo = Tail(@), !.done = @ + 1, !.arg = r.ret]
    /\ last_op' = name
    /\ last_args' = round.arg
    /\ UNCHANGED trip_frame

TripUndo ==
    /\ round.todo /= <<>>
    /\ Head(round.todo) = "undo"
    /\ TripCall("undo", undo(Vc, round.arg[1]))

TripRedo ==
    /\ round.todo /= <<>>
    /\ Head(round.todo) = "redo"
    /\ TripCall("redo", redo(Vc, round.arg[1]))

NextUndoRedo == TripUndo \/ TripRedo

SpecUndoRedo == InitUndoRedo /\ [][NextUndoRedo]_vars

\* C34: undo(c) followed by redo of what it returned gives back c and leaves
\* both stacks as they were before the undo; so does redo followed by undo;
\* and every undo or redo that returns a state keeps
\* len(undo_stack) + len(redo_stack).
UndoRedoIdentity ==
    /\ round.done >= 1 =>
          Len(undo_stack) + Len(redo_stack)
             = Len(round.vc0.undo_stack) + Len(round.vc0.redo_stack)
    /\ round.done = 2 =>
          /\ vc_ret = round.c
          /\ Vc = round.vc0

\* C34 witness: from two non-empty stacks and a current state that is on
\* neither, undo and then redo have both returned a state.
UndoRedoIdentityWitness ==
    /\ round.done = 2
    /\ last_op = "redo"
    /\ round.vc0.undo_stack /= <<>>
    /\ round.vc0.redo_stack /= <<>>
    /\ \A i \in 1..Len(undo_stack) : undo_stack[i] /= round.c[1]
    /\ \A i \in 1..Len(redo_stack) : redo_stack[i] /= round.c[1]
    /\ vc_ret = round.c

(***************************************************************************)
(* A further property of the Editor of scenario 5.                          *)
(***************************************************************************)
\* C35: after an insert_text of a non-empty text, or a delete_text that
\* removed text, a single Editor::undo sets the text back to what it was
\* immediately before that edit.
EditorUndoReverts ==
    [][(/\ last_op \in {"insert_text", "delete_text"}
        /\ ~state_panic
        /\ state.text /= text_before
        /\ last_op' = "undo")
       => state'.text = text_before]_vars

(***************************************************************************)
(* A further property of the CollaborationManager of scenario 10.  The     *)
(* broadcast channel hands every subscriber the edits in the order of the   *)
(* send calls, so collab.broadcaster, the sequence of those calls, is what  *)
(* each subscriber sees once everything published has been delivered.       *)
(***************************************************************************)
\* C36: the order in which edits are published on the broadcast channel is
\* the order in which apply_edit applied them, so that once every inbound
\* loop has published what it applied, the last published edit has the
\* content of the server document.
BroadcastMatchesApply ==
    (\A h \in Conns : collab.pc[h] = "idle") =>
          /\ collab.broadcaster = collab.effect_log
          /\ collab.broadcaster /= <<>> =>
                Last(collab.broadcaster).content = collab.document

(***************************************************************************)
(* Scenario 14: ConnectionManager::add_peer (connection_manager.rs) and     *)
(* the tasks it spawns for a peer address.  An address is that of one TCP   *)
(* connection: add_peer is called once for it.                              *)
(***************************************************************************)
InitAddPeer ==
    /\ DiffIdle
    /\ DocInit
    /\ VcInit
    /\ ExtInit
    /\ last_op = "new"
    /\ last_args = <<>>

add_peer_frame == <<diff_vars, doc_vars, vc_vars, state_ret, ed_ops, scenario, text_before,
                    clients, count_before, bc, server, registry, conns, events, app_vars,
                    hm, round>>

PeerStep(name, id) ==
    /\ last_op' = name
    /\ last_args' = <<id>>
    /\ UNCHANGED add_peer_frame

\* let (tx, rx) = unbounded_channel(); peers.insert(peer_addr, ..); tokio::spawn(..)
AddPeer(id) ==
    /\ pconn[id].task = "none"
    /\ PeerStep("add_peer", id)
    /\ chan' = [chan EXCEPT ![ChannelOf(id)] = Channel_new]
    /\ peers' = [peers EXCEPT ![id] = Some(ChannelOf(id))]
    /\ pconn' = [pconn EXCEPT ![id].task = "handshake"]

\* accept_async(stream).await.expect(..) on a failed handshake: the task
\* panics, and rx, which it owns, is dropped.
HandshakeFails(id) ==
    /\ pconn[id].task = "handshake"
    /\ PeerStep("handshake_failed", id)
    /\ chan' = [chan EXCEPT ![ChannelOf(id)].open = FALSE]
    /\ pconn' = [pconn EXCEPT ![id].task = "panicked"]
    /\ UNCHANGED peers

\* The handshake succeeds: send_task and recv_task are spawned and the task
\* waits in select!.
HandshakeDone(id) ==
    /\ pconn[id].task = "handshake"
    /\ PeerStep("handshake", id)
    /\ pconn' = [pconn EXCEPT ![id] = [task |-> "select", send |-> "run", recv |-> "run"]]
    /\ UNCHANGED <<chan, peers>>

\* recv_task reads a text message and broadcasts it.
RecvText(id, message, order) ==
    /\ pconn[id].recv = "run"
    /\ \A ch \in Channels : Len(chan[ch].queue) < MaxPeerQueue
    /\ PeerStep("recv_text", id)
    /\ chan' = peers_broadcast_message(peers, chan, order, id, message)
    /\ UNCHANGED <<peers, pconn>>

\* read.next() yields None or an error: the loop of recv_task ends and the
\* peer is removed from the map.
RecvEnd(id) ==
    /\ pconn[id].recv = "run"
    /\ PeerStep("recv_end", id)
    /\ peers' = [peers EXCEPT ![id] = None]
    /\ pconn' = [pconn EXCEPT ![id].recv = "ended"]
    /\ UNCHANGED chan

\* send_task takes a message from its channel and writes it; a failed write
\* ends the task, which drops rx.
SendWrite(id, ok) ==
    /\ pconn[id].send = "run"
    /\ chan[ChannelOf(id)].queue /= <<>>
    /\ PeerStep(IF ok THEN "write" ELSE "write_failed", id)
    /\ chan' = [chan EXCEPT ![ChannelOf(id)] =
                   [open |-> ok, queue |-> IF ok THEN Tail(@.queue) ELSE <<>>]]
    /\ pconn' = [pconn EXCEPT ![id].send = IF ok THEN "run" ELSE "ended"]
    /\ UNCHANGED peers

\* rx.recv() yields None: the queue is empty and the only sender, the one in
\* the map, is gone.
SendDone(id) ==
    /\ pconn[id].send = "run"
    /\ chan[ChannelOf(id)].queue = <<>>
    /\ peers[id] = None
    /\ PeerStep("send_end", id)
    /\ chan' = [chan EXCEPT ![ChannelOf(id)].open = FALSE]
    /\ pconn' = [pconn EXCEPT ![id].send = "ended"]
    /\ UNCHANGED peers

\* select! returns when one of the two tasks has ended; the other is detached.
AddPeerSelect(id) ==
    /\ pconn[id].task = "select"
    /\ "ended" \in {pconn[id].send, pconn[id].recv}
    /\ PeerStep("select", id)
    /\ pconn' = [pconn EXCEPT ![id].task = "returned"]
    /\ UNCHANGED <<chan, peers>>

NextAddPeer ==
    \/ \E id \in Conns : AddPeer(id)
    \/ \E id \in Conns : HandshakeFails(id)
    \/ \E id \in Conns : HandshakeDone(id)
    \/ \E id \in Conns, message \in Messages, order \in Orders : RecvText(id, message, order)
    \/ \E id \in Conns : RecvEnd(id)
    \/ \E id \in Conns, ok \in BOOLEAN : SendWrite(id, ok)
    \/ \E id \in Conns : SendDone(id)
    \/ \E id \in Conns : AddPeerSelect(id)

SpecAddPeer == InitAddPeer /\ [][NextAddPeer]_vars

\* Nothing of the connection of id runs any more.
ConnectionOver(id) ==
    /\ pconn[id].task \in {"returned", "panicked"}
    /\ pconn[id].send /= "run"
    /\ pconn[id].recv /= "run"

\* C37: a peer address that add_peer inserted is removed from the map once
\* its connection has ended, whichever way it ended; in particular it is not
\* in the map when nothing of its connection is left to remove it.
PeersNeverLeak ==
    \A id \in Conns : ConnectionOver(id) => peers[id] = None

(***************************************************************************)
(* A further property of the connection handlers of scenario 8.  Whether    *)
(* tx.send succeeds is the send_ok of Receive: a tokio broadcast send fails *)
(* exactly when the channel has no subscriber.                              *)
(***************************************************************************)
\* C38: in handle_websocket receiving a valid {content, user} message never
\* ends the inbound loop of the connection and leaves the registry as it
\* is, whatever the number of subscribers of the update channel.
ValidEditKeepsLoop ==
    [][(/\ server = "handle_websocket"
        /\ events' = events + 1
        /\ last_args'[2] = "update")
       => /\ conns'[last_args'[1]].recv = "run"
          /\ clients' = clients]_vars

(***************************************************************************)
(* A further property of the client registry of scenario 6.                 *)
(***************************************************************************)
\* C39: in every state reachable by add_client / remove_client, list_clients
\* returns exactly get_client_count entries, and every id it returns is a
\* key for which get_client_by_id returns a client.
ListingMatchesLookup ==
    \A order \in Orders :
        LET listed == list_clients(clients, order)
        IN  /\ Len(listed) = get_client_count(clients)
            /\ \A i \in 1..Len(listed) : get_client_by_id(clients, listed[i][1]) /= None

====
